---- MODULE Spec2Model ----
(***************************************************************************)
(* git-manager: the workflow orchestrator of commands/branches-actions.mjs *)
(* over the git facade of api.mjs.                                         *)
(*                                                                         *)
(* Strings are sequences of one-character strings, so that startsWith,     *)
(* replace and toKebabCase are computed character by character.            *)
(* The repository (git itself) is the environment: a primitive succeeds    *)
(* only when git could succeed in the modelled state, and primitives that  *)
(* talk to the remote or that can hit conflicts may also fail.             *)
(* The remote is only changed through this tool, so the remote-tracking    *)
(* refs that `git branch -a` lists are the remote's branches.              *)
(***************************************************************************)
EXTENDS Integers, Sequences, FiniteSets, TLC

(***************************************************************************)
(* Bounds                                                                  *)
(***************************************************************************)
\* number of workflow invocations in one behaviour
MaxRuns == 2

\* number of facade calls a client makes in a row
MaxCalls == 2

\* length of the strings handed to toKebabCase
MaxLen == 3

(***************************************************************************)
(* Characters and strings                                                  *)
(***************************************************************************)
UpperChars == <<"A","B","C","D","E","F","G","H","I","J","K","L","M",
                "N","O","P","Q","R","S","T","U","V","W","X","Y","Z">>

LowerChars == <<"a","b","c","d","e","f","g","h","i","j","k","l","m",
                "n","o","p","q","r","s","t","u","v","w","x","y","z">>

DigitChars == <<"0","1","2","3","4","5","6","7","8","9">>

\* the characters of the model in ASCII order (git sorts refs bytewise)
AsciiOrder == <<"\t", " ", "!", "-", ".", "/">> \o DigitChars \o UpperChars
              \o <<"_">> \o LowerChars

Range(s) == { s[i] : i \in 1..Len(s) }

Ord(c) == CHOOSE i \in 1..Len(AsciiOrder) : AsciiOrder[i] = c

IsUpper(c) == c \in Range(UpperChars)

\* \w of a JavaScript regular expression: [A-Za-z0-9_]
IsWordChar(c) == c \in Range(UpperChars) \cup Range(LowerChars)
                       \cup Range(DigitChars) \cup {"_"}

\* \s of a JavaScript regular expression (the whitespace of the model)
IsSpace(c) == c \in {" ", "\t"}

LowerOf(c) ==
    IF IsUpper(c)
    THEN LowerChars[CHOOSE i \in 1..26 : UpperChars[i] = c]
    ELSE c

\* String.prototype.toLowerCase
toLowerCase(s) == [i \in 1..Len(s) |-> LowerOf(s[i])]

RECURSIVE trimStart(_)
trimStart(s) ==
    IF s # <<>> /\ IsSpace(Head(s)) THEN trimStart(Tail(s)) ELSE s

RECURSIVE trimEnd(_)
trimEnd(s) ==
    IF s # <<>> /\ IsSpace(s[Len(s)])
    THEN trimEnd(SubSeq(s, 1, Len(s) - 1))
    ELSE s

\* String.prototype.trim
trim(s) == trimEnd(trimStart(s))

\* mutant: the character class forgets the hyphen, /[^\w\s]/g
KeepCharNoHyphen(c) == IsWordChar(c) \/ IsSpace(c)

KeepChar(c) == IsWordChar(c) \/ IsSpace(c) \/ c = "-"

\* .replace(/[^\w\s-]/g, '')
removeSpecial(s) == SelectSeq(s, KeepChar)

IsSepChar(c) == IsSpace(c) \/ c = "_"

RECURSIVE dropSeps(_)
dropSeps(s) ==
    IF s # <<>> /\ IsSepChar(Head(s)) THEN dropSeps(Tail(s)) ELSE s

\* mutant: the pattern has no `+`, every separator becomes a hyphen
collapseSepsEach(s) ==
    [i \in 1..Len(s) |-> IF IsSepChar(s[i]) THEN "-" ELSE s[i]]

\* .replace(/[\s_]+/g, '-')
RECURSIVE collapseSeps(_)
collapseSeps(s) ==
    IF s = <<>> THEN <<>>
    ELSE IF IsSepChar(Head(s))
         THEN <<"-">> \o collapseSeps(dropSeps(s))
         ELSE <<Head(s)>> \o collapseSeps(Tail(s))

toKebabCase(text) == collapseSeps(removeSpecial(toLowerCase(trim(text))))

\* String.prototype.startsWith
startsWith(s, p) == Len(s) >= Len(p) /\ SubSeq(s, 1, Len(p)) = p

\* String.prototype.replace(p, r) with a string pattern: first occurrence
RECURSIVE replaceFirst(_, _, _)
replaceFirst(s, p, r) ==
    IF startsWith(s, p) THEN r \o SubSeq(s, Len(p) + 1, Len(s))
    ELSE IF s = <<>> THEN <<>>
    ELSE <<Head(s)>> \o replaceFirst(Tail(s), p, r)

RECURSIVE LexLess(_, _)
LexLess(a, b) ==
    IF a = <<>> THEN b # <<>>
    ELSE IF b = <<>> THEN FALSE
    ELSE IF Head(a) = Head(b) THEN LexLess(Tail(a), Tail(b))
    ELSE Ord(Head(a)) < Ord(Head(b))

\* the names of S in the order `git branch` prints them
RECURSIVE SortNames(_)
SortNames(S) ==
    IF S = {} THEN <<>>
    ELSE LET m == CHOOSE x \in S : \A y \in S \ {x} : LexLess(x, y)
         IN  <<m>> \o SortNames(S \ {m})

\* Array.prototype.filter / find over a list of names
FilterPrefix(list, p) == SelectSeq(list, LAMBDA b : startsWith(b, p))

(***************************************************************************)
(* Names                                                                   *)
(***************************************************************************)
None == <<"\t">>

main == <<"m","a","i","n">>

master == <<"m","a","s","t","e","r">>

develop == <<"d","e","v","e","l","o","p">>

releasePrefix == <<"r","e","l","e","a","s","e","/">>

hotfixPrefix == <<"h","o","t","f","i","x","/">>

featurePrefix == <<"f","e","a","t","u","r","e","/">>


release1 == releasePrefix \o <<"1">>

hotfix2 == hotfixPrefix \o <<"2">>

(***************************************************************************)
(* State                                                                   *)
(***************************************************************************)
VARIABLES
    current,         \* the checked-out branch
    localBranches,   \* refs/heads
    remoteBranches,  \* refs/remotes/origin = the branches of origin
    commits,         \* local branch -> the commits it contains
    remoteCommits,   \* branch of origin -> the commits it contains
    tags,            \* local tags, most recently created first
    remoteTags,      \* tags of origin
    tree,            \* working tree: "clean", "tracked", "untracked", "conflict"
    stash,           \* stash stack, top first; an entry records the run that pushed it
    pc,              \* position inside the running workflow, "idle" between runs
    wf,              \* the workflow of the current (or last) run
    runs,            \* number of workflow invocations so far
    outcome,         \* how the last run ended, and the branches its error names
    answers,         \* what the user answers to the prompts of the run
    entry,           \* the repository as it was when the run started
    calls,           \* facade mutations invoked by the run, in order
    releaseBranch,   \* doRelease: const releaseBranch
    tagName,         \* doRelease: const tagName
    mainBranch,      \* doRelease: const mainBranch
    tag,             \* doRelease: const tag / create-*: releaseTag
    newBranchName,   \* create-*: const newBranchName
    changesStashed   \* let changesStashed of the function that declares it

gitVars == <<current, localBranches, remoteBranches, commits, remoteCommits,
             tags, remoteTags, tree, stash>>

runVars == <<releaseBranch, tagName, mainBranch, tag, newBranchName,
             changesStashed>>

vars == <<current, localBranches, remoteBranches, commits, remoteCommits,
          tags, remoteTags, tree, stash, pc, wf, runs, outcome, answers,
          entry, calls, releaseBranch, tagName, mainBranch, tag,
          newBranchName, changesStashed>>

(***************************************************************************)
(* Repository Query Facade (api.mjs)                                       *)
(***************************************************************************)
getCurrentBranch == current

\* `git status -s` prints nothing exactly when the tree is clean
getStatusEmpty == tree = "clean"

\* `git branch -a`: local branches, then the remote-tracking ones, with the
\* remotes/origin/ prefix stripped and duplicates removed
getAllBranches ==
    SortNames(localBranches) \o SortNames(remoteBranches \ localBranches)

getLocalBranches == SortNames(localBranches)

IsMainName(b) == startsWith(b, main) \/ startsWith(b, master)

\* branches.find(...): the first match, undefined when there is none
getMainBranch ==
    LET found == SelectSeq(getAllBranches, IsMainName)
    IN  IF found = <<>> THEN None ELSE Head(found)

listTags == tags

TagSet == Range(tags)

Snapshot ==
    [current |-> current, localBranches |-> localBranches,
     remoteBranches |-> remoteBranches, commits |-> commits,
     remoteCommits |-> remoteCommits, tags |-> tags,
     remoteTags |-> remoteTags, tree |-> tree, stash |-> stash]

(***************************************************************************)
(* Mutation Facade (api.mjs).  Every operation logs its invocation and     *)
(* whether it succeeded; the last parameter is the result the caller sees. *)
(***************************************************************************)
Log(op, arg, ok) == calls' = Append(calls, [op |-> op, arg |-> arg, ok |-> ok])

\* stashChanges(): false on a clean tree; `git stash save` pushes an entry
\* when tracked files changed, prints "No local changes to save" and exits 0
\* when only untracked files exist, and fails on unmerged paths
stashChanges(result) ==
    /\ Log("stashChanges", None, result # "throw")
    /\ CASE tree = "clean" ->
              /\ result = "false"
              /\ UNCHANGED <<tree, stash>>
         [] tree = "tracked" ->
              /\ result = "true"
              /\ tree' = "clean"
              /\ stash' = <<[by |-> runs]>> \o stash
         [] tree = "untracked" ->
              /\ result = "true"
              /\ UNCHANGED <<tree, stash>>
         [] tree = "conflict" ->
              /\ result = "throw"
              /\ UNCHANGED <<tree, stash>>
    /\ UNCHANGED <<current, localBranches, remoteBranches, commits,
                   remoteCommits, tags, remoteTags>>

\* mutant: `git stash drop`, the entry is thrown away
applyStashDrop(thrown) ==
    /\ Log("applyStash", None, ~thrown)
    /\ IF thrown
       THEN UNCHANGED <<tree, stash>>
       ELSE /\ stash # <<>>
            /\ tree # "conflict"
            /\ tree' = tree
            /\ stash' = Tail(stash)
    /\ UNCHANGED <<current, localBranches, remoteBranches, commits,
                   remoteCommits, tags, remoteTags>>

\* mutant: `git stash apply` is run, the entry stays on the stack
applyStashKeep(thrown) ==
    /\ Log("applyStash", None, ~thrown)
    /\ IF thrown
       THEN UNCHANGED <<tree, stash>>
       ELSE /\ stash # <<>>
            /\ tree # "conflict"
            /\ tree' = "tracked"
            /\ stash' = stash
    /\ UNCHANGED <<current, localBranches, remoteBranches, commits,
                   remoteCommits, tags, remoteTags>>

\* applyStash(): `git stash pop`; fails without a stash entry or when the
\* entry does not apply to the tree
applyStash(thrown) ==
    /\ Log("applyStash", None, ~thrown)
    /\ IF thrown
       THEN UNCHANGED <<tree, stash>>
       ELSE /\ stash # <<>>
            /\ tree # "conflict"
            /\ tree' = "tracked"
            /\ stash' = Tail(stash)
    /\ UNCHANGED <<current, localBranches, remoteBranches, commits,
                   remoteCommits, tags, remoteTags>>

\* `git checkout b` can succeed when b is a local branch or a branch of
\* origin (a tracking branch is then created) and no merge is unresolved
CanCheckout(b) ==
    /\ b \in localBranches \cup remoteBranches
    /\ tree # "conflict"

checkoutBranch(b, thrown) ==
    /\ Log("checkoutBranch", b, ~thrown)
    /\ IF thrown
       THEN /\ ~CanCheckout(b) \/ tree = "tracked"
            /\ UNCHANGED <<current, localBranches, commits>>
       ELSE /\ CanCheckout(b)
            /\ current' = b
            /\ localBranches' = localBranches \cup {b}
            /\ commits' = [x \in localBranches \cup {b} |->
                             IF x \in localBranches THEN commits[x]
                             ELSE remoteCommits[x]]
    /\ UNCHANGED <<remoteBranches, remoteCommits, tags, remoteTags, tree,
                   stash>>

\* `git pull --rebase`: needs the branch on origin and no changes to
\* tracked files; may fail (network, rebase conflict)
CanPull == current \in remoteBranches /\ tree \in {"clean", "untracked"}

pull(op, thrown) ==
    /\ Log(op, None, ~thrown)
    /\ IF thrown
       THEN UNCHANGED commits
       ELSE /\ CanPull
            /\ commits' = [commits EXCEPT
                             ![current] = @ \cup remoteCommits[current]]
    /\ UNCHANGED <<current, localBranches, remoteBranches, remoteCommits,
                   tags, remoteTags, tree, stash>>

pullLatestChanges(thrown) == pull("pullLatestChanges", thrown)

pullWithRebase(thrown) == pull("pullWithRebase", thrown)

\* `git checkout -b name startPoint`
CanCreateBranch(name, startPoint) ==
    /\ name \notin localBranches
    /\ startPoint \in localBranches
    /\ tree # "conflict"

createBranch(name, startPoint, thrown) ==
    /\ Log("createBranch", name, ~thrown)
    /\ IF thrown
       THEN /\ ~CanCreateBranch(name, startPoint)
            /\ UNCHANGED <<current, localBranches, commits>>
       ELSE /\ CanCreateBranch(name, startPoint)
            /\ current' = name
            /\ localBranches' = localBranches \cup {name}
            /\ commits' = [x \in localBranches \cup {name} |->
                             IF x = name THEN commits[startPoint]
                             ELSE commits[x]]
    /\ UNCHANGED <<remoteBranches, remoteCommits, tags, remoteTags, tree,
                   stash>>

\* `git merge --no-ff src`: a conflict leaves the merge unresolved; merging
\* what is already merged is "Already up to date"
CanMerge(src) == src \in localBranches /\ tree \in {"clean", "untracked"}

mergeBranch(src, thrown) ==
    /\ Log("mergeBranch", src, ~thrown)
    /\ IF thrown
       THEN /\ ~CanMerge(src) \/ ~(commits[src] \subseteq commits[current])
            /\ tree' = IF CanMerge(src) THEN "conflict" ELSE tree
            /\ UNCHANGED commits
       ELSE /\ CanMerge(src)
            /\ commits' = [commits EXCEPT ![current] = @ \cup commits[src]]
            /\ UNCHANGED tree
    /\ UNCHANGED <<current, localBranches, remoteBranches, remoteCommits,
                   tags, remoteTags, stash>>

\* `git tag -a t -m t`: fails when the tag exists
createTag(t, thrown) ==
    /\ Log("createTag", t, ~thrown)
    /\ thrown = (t \in TagSet)
    /\ tags' = IF thrown THEN tags ELSE <<t>> \o tags
    /\ UNCHANGED <<current, localBranches, remoteBranches, commits,
                   remoteCommits, remoteTags, tree, stash>>

\* `git push origin ref`: ref is a branch when the branch list has it,
\* otherwise a tag
pushToRemote(ref, thrown) ==
    /\ Log("pushToRemote", ref, ~thrown)
    /\ IF thrown
       THEN UNCHANGED <<remoteBranches, remoteCommits, remoteTags>>
       ELSE /\ ref \in localBranches \cup TagSet
            /\ IF ref \in localBranches
               THEN /\ remoteBranches' = remoteBranches \cup {ref}
                    /\ remoteCommits' =
                         [x \in remoteBranches \cup {ref} |->
                            IF x = ref THEN commits[ref] ELSE remoteCommits[x]]
                    /\ UNCHANGED remoteTags
               ELSE /\ remoteTags' = remoteTags \cup {ref}
                    /\ UNCHANGED <<remoteBranches, remoteCommits>>
    /\ UNCHANGED <<current, localBranches, commits, tags, tree, stash>>

\* `git push --set-upstream origin <current>`; never throws
setUpstreamAndPush(success) ==
    /\ Log("setUpstreamAndPush", current, success)
    /\ IF success
       THEN /\ remoteBranches' = remoteBranches \cup {current}
            /\ remoteCommits' =
                 [x \in remoteBranches \cup {current} |->
                    IF x = current THEN commits[current] ELSE remoteCommits[x]]
       ELSE UNCHANGED <<remoteBranches, remoteCommits>>
    /\ UNCHANGED <<current, localBranches, commits, tags, remoteTags, tree,
                   stash>>

\* `git branch -d b` needs b merged into HEAD or pushed to its upstream,
\* `git branch -D b` does not; neither deletes the checked-out branch
CanDeleteLocal(b, force) ==
    /\ b \in localBranches
    /\ b # current
    /\ \/ force
       \/ commits[b] \subseteq commits[current]
       \/ (b \in remoteBranches /\ commits[b] \subseteq remoteCommits[b])

\* deleteLocalBranch(b, force): returns {success, ...}, never throws
deleteLocalBranch(b, force, success) ==
    /\ Log(IF force THEN "deleteLocalBranch -D" ELSE "deleteLocalBranch -d", b,
           success)
    /\ IF success
       THEN /\ CanDeleteLocal(b, force)
            /\ localBranches' = localBranches \ {b}
            /\ commits' = [x \in localBranches \ {b} |-> commits[x]]
       ELSE UNCHANGED <<localBranches, commits>>
    /\ UNCHANGED <<current, remoteBranches, remoteCommits, tags, remoteTags,
                   tree, stash>>

\* `git push origin --delete b`
deleteRemoteBranch(b, thrown) ==
    /\ Log("deleteRemoteBranch", b, ~thrown)
    /\ IF thrown
       THEN UNCHANGED <<remoteBranches, remoteCommits>>
       ELSE /\ b \in remoteBranches
            /\ remoteBranches' = remoteBranches \ {b}
            /\ remoteCommits' = [x \in remoteBranches \ {b} |-> remoteCommits[x]]
    /\ UNCHANGED <<current, localBranches, commits, tags, remoteTags, tree,
                   stash>>


(***************************************************************************)
(* Prompt inputs                                                           *)
(***************************************************************************)
TagInputs == { <<"1">>, <<"2">> }

IssueKeys == { <<"J","I","R","A","-","1","2","3">>, <<"A","_","1">> }

BranchNameInputs == { <<"T","e","s","t"," ","F","e","a","t","u","r","e">>,
                      <<" ","f","i","x"," "," ","I","t","!"," ">> }

NoAnswers ==
    [releaseBranch |-> None, confirm |-> FALSE, createTagConfirm |-> FALSE,
     releaseTag |-> None, issueKey |-> None, branchName |-> None,
     selectedBranches |-> <<>>, selectedBranch |-> None,
     selectedCommit |-> ""]

(***************************************************************************)
(* Runs                                                                    *)
(***************************************************************************)
\* a command of the command surface is invoked
Begin(w) ==
    /\ pc = "idle"
    /\ runs < MaxRuns
    /\ wf' = w
    /\ runs' = runs + 1
    /\ entry' = Snapshot
    /\ calls' = <<>>

\* the function returns or throws: o is the terminal state
End(o) == pc' = "idle" /\ outcome' = [state |-> o, offending |-> <<>>]

\* throw new Error(`... already exists ...: ${existing.join(', ')}`)
EndBlocked(existing) ==
    pc' = "idle" /\ outcome' = [state |-> "error", offending |-> existing]

Goto(l) == pc' = l /\ outcome' = outcome

FinishTypes == {"finish-release", "finish-hotfix"}

(***************************************************************************)
(* finishRelease / finishHotfix: doRelease(type)                           *)
(***************************************************************************)
BranchPrefixOf(w) ==
    IF w \in {"finish-hotfix", "create-hotfix"} THEN hotfixPrefix
    ELSE releasePrefix

\* the statements of doRelease after the confirmation, in program order
\* (lines 501-553)
DrOrder ==
    << "dr_stash", "dr_co_release", "dr_co_main", "dr_pull_main",
       "dr_co_develop", "dr_pull_develop", "dr_co_main2", "dr_merge_main",
       "dr_co_develop2", "dr_merge_develop", "dr_merge_develop2", "dr_tag",
       "dr_push_main", "dr_push_develop", "dr_push_tag", "dr_delete_local",
       "dr_delete_remote", "dr_co_develop3", "dr_end" >>

DrAfter(order, at) ==
    order[(CHOOSE i \in 1..Len(order) : order[i] = at) + 1]

\* mutant: the finished branch is deleted before anything is pushed
DrNextDeleteFirst(at) ==
    DrAfter(<< "dr_stash", "dr_co_release", "dr_co_main", "dr_pull_main",
               "dr_co_develop", "dr_pull_develop", "dr_co_main2",
               "dr_merge_main", "dr_co_develop2", "dr_merge_develop",
               "dr_merge_develop2", "dr_tag", "dr_delete_local",
               "dr_push_main", "dr_push_develop", "dr_push_tag",
               "dr_delete_remote", "dr_co_develop3", "dr_end" >>, at)

\* mutant: the tag is created after the pushes
DrNextTagLast(at) ==
    DrAfter(<< "dr_stash", "dr_co_release", "dr_co_main", "dr_pull_main",
               "dr_co_develop", "dr_pull_develop", "dr_co_main2",
               "dr_merge_main", "dr_co_develop2", "dr_merge_develop",
               "dr_merge_develop2", "dr_push_main", "dr_push_develop",
               "dr_push_tag", "dr_tag", "dr_delete_local",
               "dr_delete_remote", "dr_co_develop3", "dr_end" >>, at)

\* mutant: the merge into develop is left out
DrNextNoDevelopMerge(at) ==
    IF at = "dr_merge_main" THEN "dr_tag" ELSE DrAfter(DrOrder, at)

\* the statement that follows statement `at`
DrNext(at) == DrAfter(DrOrder, at)

\* mutant: the answer to the confirmation is not looked at
ConfirmGateAlways(confirm) == TRUE

\* `if (!confirm) return` (branches-actions.mjs:496): the mutations start
\* only on a yes
ConfirmGate(confirm) == confirm

\* lines 459-499: candidates, selection, tag name, main branch, confirmation
DoReleaseBegin(w) ==
    /\ Begin(w)
    /\ UNCHANGED gitVars
    /\ tag' = None
    /\ newBranchName' = None
    /\ changesStashed' = FALSE
    /\ LET branchPrefix == BranchPrefixOf(w)
           releaseBranches == FilterPrefix(getAllBranches, branchPrefix)
       IN  IF releaseBranches = <<>>
           THEN /\ End("no-candidates")
                /\ answers' = NoAnswers
                /\ releaseBranch' = None
                /\ tagName' = None
                /\ mainBranch' = None
           ELSE \E rb \in Range(releaseBranches) :
                /\ releaseBranch' = rb
                /\ tagName' = replaceFirst(rb, branchPrefix, <<>>)
                /\ mainBranch' = getMainBranch
                /\ IF getMainBranch = None
                   THEN /\ End("no-main")
                        /\ answers' = [NoAnswers EXCEPT !.releaseBranch = rb]
                   ELSE \E confirm \in BOOLEAN, createTagConfirm \in BOOLEAN :
                        /\ confirm \/ ~createTagConfirm
                        /\ answers' = [NoAnswers EXCEPT
                                         !.releaseBranch = rb,
                                         !.confirm = confirm,
                                         !.createTagConfirm = createTagConfirm]
                        /\ IF ConfirmGate(confirm)
                           THEN Goto(Head(DrOrder))
                           ELSE End("cancelled")

\* mutant: the failed merge is not caught, the run goes on
OnConflictContinue(thrown, next) == Goto(next)

\* the inner try/catch around mergeBranch (lines 515-521, 529-535): the
\* conflict is reported and the function returns
OnConflict(thrown, next) ==
    IF thrown THEN End("conflict") ELSE Goto(next)

\* mutant: the outer handler throws the error on to the caller
DrTryRethrow(thrown, next) ==
    IF thrown THEN End("error")
    ELSE IF next = "dr_end" THEN End("completed")
    ELSE Goto(next)

\* the outer try/catch of doRelease (lines 458, 557-559): the error is
\* printed and the function returns; after the last statement (line 556)
\* the run is completed
DrTry(thrown, next) ==
    IF thrown THEN End("caught")
    ELSE IF next = "dr_end" THEN End("completed")
    ELSE Goto(next)

DrFrame == UNCHANGED <<wf, runs, answers, entry, runVars>>

\* line 501: stashChanges(), result ignored
DrStash ==
    /\ pc = "dr_stash"
    /\ \E r \in {"true", "false", "throw"} :
         /\ stashChanges(r)
         /\ DrTry(r = "throw", DrNext("dr_stash"))
    /\ DrFrame

\* a checkoutBranch(b) step of doRelease
DrCheckout(at, b) ==
    /\ pc = at
    /\ \E thrown \in BOOLEAN :
         /\ checkoutBranch(b, thrown)
         /\ DrTry(thrown, DrNext(at))
    /\ DrFrame

\* line 503
DrCheckoutRelease == DrCheckout("dr_co_release", releaseBranch)

\* line 505
DrCheckoutMain == DrCheckout("dr_co_main", mainBranch)

\* a pullLatestChanges() step of doRelease
DrPull(at) ==
    /\ pc = at
    /\ \E thrown \in BOOLEAN :
         /\ pullLatestChanges(thrown)
         /\ DrTry(thrown, DrNext(at))
    /\ DrFrame

\* line 507
DrPullMain == DrPull("dr_pull_main")

\* line 509
DrCheckoutDevelop == DrCheckout("dr_co_develop", develop)

\* line 511
DrPullDevelop == DrPull("dr_pull_develop")

\* line 513
DrCheckoutMainAgain == DrCheckout("dr_co_main2", mainBranch)

\* lines 515-521: merge into main, a failure ends the run
DrMergeMain ==
    /\ pc = "dr_merge_main"
    /\ \E thrown \in BOOLEAN :
         /\ mergeBranch(releaseBranch, thrown)
         /\ OnConflict(thrown, DrNext("dr_merge_main"))
    /\ DrFrame

\* line 525
DrCheckoutDevelopAgain ==
    DrCheckout("dr_co_develop2", develop)

\* line 528: the merge into develop outside the inner try
DrMergeDevelop ==
    /\ pc = "dr_merge_develop"
    /\ \E thrown \in BOOLEAN :
         /\ mergeBranch(releaseBranch, thrown)
         /\ DrTry(thrown, DrNext("dr_merge_develop"))
    /\ DrFrame

\* lines 529-535: the same merge again, inside the inner try
DrMergeDevelopAgain ==
    /\ pc = "dr_merge_develop2"
    /\ \E thrown \in BOOLEAN :
         /\ mergeBranch(releaseBranch, thrown)
         /\ OnConflict(thrown, DrNext("dr_merge_develop2"))
    /\ DrFrame

\* the answers the tag prompt of listAndSelectTag accepts: typed text or
\* the default, the most recent tag
TagAnswers == TagInputs \cup (IF listTags = <<>> THEN {} ELSE {Head(listTags)})

\* lines 536-537: listAndSelectTag() and createTag(tag), whatever the user
\* wants about tags
DrTag ==
    /\ pc = "dr_tag"
    /\ \E t \in TagAnswers, thrown \in BOOLEAN :
         /\ tag' = t
         /\ answers' = [answers EXCEPT !.releaseTag = t]
         /\ createTag(t, thrown)
         /\ DrTry(thrown, DrNext("dr_tag"))
    /\ UNCHANGED <<wf, runs, entry, releaseBranch, tagName, mainBranch,
                   newBranchName, changesStashed>>

\* a pushToRemote(ref) step of doRelease
DrPush(at, ref) ==
    /\ pc = at
    /\ \E thrown \in BOOLEAN :
         /\ pushToRemote(ref, thrown)
         /\ DrTry(thrown, DrNext(at))
    /\ DrFrame

\* line 538
DrPushMain == DrPush("dr_push_main", mainBranch)

\* line 539
DrPushDevelop == DrPush("dr_push_develop", develop)

\* line 540: the name derived from the branch is pushed
DrPushTag == DrPush("dr_push_tag", tagName)

\* mutant: the branch is deleted with force
DrDeleteLocalForce ==
    /\ pc = "dr_delete_local"
    /\ \E success \in BOOLEAN :
         /\ deleteLocalBranch(releaseBranch, TRUE, success)
         /\ IF success THEN Goto(DrNext("dr_delete_local"))
            ELSE End("delete-failed")
    /\ DrFrame

\* lines 543-547: non-force local delete, a failure ends the run
DrDeleteLocal ==
    /\ pc = "dr_delete_local"
    /\ \E success \in BOOLEAN :
         /\ deleteLocalBranch(releaseBranch, FALSE, success)
         /\ IF success THEN Goto(DrNext("dr_delete_local"))
            ELSE End("delete-failed")
    /\ DrFrame

\* line 550
DrDeleteRemote ==
    /\ pc = "dr_delete_remote"
    /\ \E thrown \in BOOLEAN :
         /\ deleteRemoteBranch(releaseBranch, thrown)
         /\ DrTry(thrown, DrNext("dr_delete_remote"))
    /\ DrFrame

\* lines 553-556
DrCheckoutDevelopFinal == DrCheckout("dr_co_develop3", develop)

finishRelease == DoReleaseBegin("finish-release")

finishHotfix == DoReleaseBegin("finish-hotfix")


(***************************************************************************)
(* checkoutDevelop / checkoutMain (branches-actions.mjs:295-372)           *)
(***************************************************************************)
\* the catch blocks of the create workflows print and rethrow
Rethrow(thrown, next) ==
    IF thrown THEN End("error") ELSE Goto(next)

CreateFrame == UNCHANGED <<wf, runs, answers, entry, releaseBranch, tagName,
                           mainBranch, tag, newBranchName>>

\* mutant: the flag is set although nothing was stashed
StashIfDirtyFlagAlways(at, next) ==
    /\ pc = at
    /\ IF getStatusEmpty
       THEN /\ Goto(next)
            /\ UNCHANGED gitVars
            /\ UNCHANGED calls
            /\ changesStashed' = TRUE
       ELSE \E r \in {"true", "false", "throw"} :
              /\ stashChanges(r)
              /\ changesStashed' = TRUE
              /\ Rethrow(r = "throw", next)
    /\ CreateFrame

\* lines 302-317 and 343-357: stash when `git status -s` printed something
StashIfDirty(at, next) ==
    /\ pc = at
    /\ IF getStatusEmpty
       THEN /\ Goto(next)
            /\ UNCHANGED gitVars
            /\ UNCHANGED <<calls, changesStashed>>
       ELSE \E r \in {"true", "false", "throw"} :
              /\ stashChanges(r)
              /\ changesStashed' = (r = "true")
              /\ Rethrow(r = "throw", next)
    /\ CreateFrame

\* checkoutDevelop, lines 310-317
CheckoutDevelopStash == StashIfDirty("cd_stash", "cd_checkout")

\* checkoutDevelop, line 321
CheckoutDevelopCheckout ==
    /\ pc = "cd_checkout"
    /\ \E thrown \in BOOLEAN :
         /\ checkoutBranch(develop, thrown)
         /\ Rethrow(thrown, "cd_pull")
    /\ CreateFrame
    /\ UNCHANGED changesStashed

\* checkoutDevelop, line 325, then back in the caller
CheckoutDevelopPull ==
    /\ pc = "cd_pull"
    /\ \E thrown \in BOOLEAN :
         /\ pullWithRebase(thrown)
         /\ Rethrow(thrown, IF wf = "create-feature" THEN "cf_create"
                            ELSE "cr_create")
    /\ CreateFrame
    /\ UNCHANGED changesStashed

\* checkoutMain, lines 351-357: the result of stashChanges is dropped
CheckoutMainStash == StashIfDirty("cm_stash", "cm_checkout")

\* checkoutMain, lines 359-363: checkoutBranch(getMainBranch())
CheckoutMainCheckout ==
    /\ pc = "cm_checkout"
    /\ \E thrown \in BOOLEAN :
         /\ checkoutBranch(getMainBranch, thrown)
         /\ Rethrow(thrown, "cm_pull")
    /\ CreateFrame
    /\ UNCHANGED changesStashed

\* checkoutMain, line 367, then back in createHotfix
CheckoutMainPull ==
    /\ pc = "cm_pull"
    /\ \E thrown \in BOOLEAN :
         /\ pullWithRebase(thrown)
         /\ Rethrow(thrown, "ch_create")
    /\ CreateFrame
    /\ UNCHANGED changesStashed

BeginCreate(w) ==
    /\ Begin(w)
    /\ UNCHANGED gitVars
    /\ answers' = NoAnswers
    /\ releaseBranch' = None
    /\ tagName' = None
    /\ mainBranch' = None
    /\ tag' = None
    /\ newBranchName' = None
    /\ changesStashed' = FALSE

(***************************************************************************)
(* createFeatureBranch (branches-actions.mjs:205-251)                      *)
(***************************************************************************)
\* line 209: enters checkoutDevelop
createFeatureBranch ==
    /\ BeginCreate("create-feature")
    /\ Goto("cd_stash")

\* mutant: the issue key is used as typed
FeatureBranchNameRawKey(issueKey, branchName) ==
    featurePrefix \o issueKey \o <<"-">>
                  \o toLowerCase(toKebabCase(branchName))

\* lines 232-234
FeatureBranchName(issueKey, branchName) ==
    featurePrefix \o toKebabCase(issueKey) \o <<"-">>
                  \o toLowerCase(toKebabCase(branchName))

\* validate: input => !!input.trim()
ValidInput(input) == trim(input) # <<>>

\* lines 211-238: the two prompts, the name, createBranch(name, 'develop')
CfCreate ==
    /\ pc = "cf_create"
    /\ \E issueKey \in IssueKeys, branchName \in BranchNameInputs :
         /\ ValidInput(issueKey) /\ ValidInput(branchName)
         /\ answers' = [answers EXCEPT !.issueKey = issueKey,
                                       !.branchName = branchName]
         /\ newBranchName' = FeatureBranchName(issueKey, branchName)
         /\ \E thrown \in BOOLEAN :
              /\ createBranch(FeatureBranchName(issueKey, branchName),
                              develop, thrown)
              /\ Rethrow(thrown, "cf_restore")
    /\ UNCHANGED <<wf, runs, entry, releaseBranch, tagName, mainBranch, tag,
                   changesStashed>>

\* lines 240-250: `changesStashed` is declared in checkoutDevelop only; in
\* a module (strict mode) reading it here throws a ReferenceError, which
\* the catch prints and rethrows
CfRestore ==
    /\ pc = "cf_restore"
    /\ End("error")
    /\ UNCHANGED gitVars
    /\ UNCHANGED <<wf, runs, answers, entry, calls, runVars>>

(***************************************************************************)
(* createReleaseBranch (258-289) and createHotfix (379-407)                *)
(***************************************************************************)
\* mutant: only the local branches are looked at
ExistingOfLocal(prefix) == FilterPrefix(getLocalBranches, prefix)

\* lines 262-268 / 383-389: the branches that block the creation
ExistingOf(prefix) == FilterPrefix(getAllBranches, prefix)

\* mutant: the precondition is not checked
BlockedNever(existing) == FALSE

\* lines 264 / 385: the precondition
Blocked(existing) == Len(existing) > 0

BeginCreateRelease(w, first) ==
    /\ BeginCreate(w)
    /\ IF Blocked(ExistingOf(BranchPrefixOf(w)))
       THEN EndBlocked(ExistingOf(BranchPrefixOf(w)))
       ELSE Goto(first)

createReleaseBranch == BeginCreateRelease("create-release", "cd_stash")

createHotfix == BeginCreateRelease("create-hotfix", "cm_stash")

\* lines 272-281: listAndSelectTag, createBranch('release/<tag>', 'develop')
CrCreate ==
    /\ pc = "cr_create"
    /\ \E t \in TagAnswers, thrown \in BOOLEAN :
         /\ tag' = t
         /\ answers' = [answers EXCEPT !.releaseTag = t]
         /\ newBranchName' = releasePrefix \o t
         /\ createBranch(releasePrefix \o t, develop, thrown)
         /\ Rethrow(thrown, "cr_push")
    /\ UNCHANGED <<wf, runs, entry, releaseBranch, tagName, mainBranch,
                   changesStashed>>

\* mutant: the new release branch is not published
CrPushSkipped ==
    /\ pc = "cr_push"
    /\ End("success")
    /\ UNCHANGED gitVars
    /\ UNCHANGED <<wf, runs, answers, entry, calls, runVars>>

\* lines 283-284: setUpstreamAndPush(), its result is not looked at
CrPush ==
    /\ pc = "cr_push"
    /\ \E success \in BOOLEAN : setUpstreamAndPush(success)
    /\ End("success")
    /\ UNCHANGED <<wf, runs, answers, entry, runVars>>

\* lines 394-402: listAndSelectTag, createBranch('hotfix/<tag>', main)
ChCreate ==
    /\ pc = "ch_create"
    /\ \E t \in TagAnswers, thrown \in BOOLEAN :
         /\ tag' = t
         /\ answers' = [answers EXCEPT !.releaseTag = t]
         /\ newBranchName' = hotfixPrefix \o t
         /\ createBranch(hotfixPrefix \o t, getMainBranch, thrown)
         /\ IF thrown THEN End("error") ELSE End("success")
    /\ UNCHANGED <<wf, runs, entry, releaseBranch, tagName, mainBranch,
                   changesStashed>>

(***************************************************************************)
(* Initial repositories                                                    *)
(***************************************************************************)
InitCommits(b) ==
    IF b = develop THEN {"c0", "cd"}
    ELSE IF b = release1 THEN {"c0", "cd", "cr"}
    ELSE IF b = hotfix2 THEN {"c0", "ch"}
    ELSE {"c0"}

\* which release/hotfix branches exist at the start, locally and on origin
Topics ==
    { [l |-> {}, r |-> {}],
      [l |-> {release1}, r |-> {release1}],
      [l |-> {}, r |-> {release1}],
      [l |-> {hotfix2}, r |-> {}],
      [l |-> {hotfix2}, r |-> {hotfix2}],
      [l |-> {release1, hotfix2}, r |-> {release1, hotfix2}] }

Init ==
    /\ \E m \in {{main}, {master}, {}}, t \in Topics :
         /\ localBranches = {develop} \cup m \cup t.l
         /\ remoteBranches = {develop} \cup m \cup t.r
    /\ current \in localBranches
    /\ commits = [b \in localBranches |-> InitCommits(b)]
    /\ remoteCommits = [b \in remoteBranches |-> InitCommits(b)]
    /\ tags \in {<<>>, << <<"1">> >>}
    /\ remoteTags = Range(tags)
    /\ tree \in {"clean", "tracked", "untracked"}
    /\ stash \in {<<>>, <<[by |-> 0]>>}
    /\ pc = "idle"
    /\ wf = "none"
    /\ runs = 0
    /\ outcome = [state |-> "none", offending |-> <<>>]
    /\ answers = NoAnswers
    /\ entry = Snapshot
    /\ calls = <<>>
    /\ releaseBranch = None
    /\ tagName = None
    /\ mainBranch = None
    /\ tag = None
    /\ newBranchName = None
    /\ changesStashed = FALSE

\* the release and hotfix commands
Next ==
    \/ finishRelease
    \/ finishHotfix
    \/ DrStash
    \/ DrCheckoutRelease
    \/ DrCheckoutMain
    \/ DrPullMain
    \/ DrCheckoutDevelop
    \/ DrPullDevelop
    \/ DrCheckoutMainAgain
    \/ DrMergeMain
    \/ DrCheckoutDevelopAgain
    \/ DrMergeDevelop
    \/ DrMergeDevelopAgain
    \/ DrTag
    \/ DrPushMain
    \/ DrPushDevelop
    \/ DrPushTag
    \/ DrDeleteLocal
    \/ DrDeleteRemote
    \/ DrCheckoutDevelopFinal
    \/ createReleaseBranch
    \/ createHotfix
    \/ CheckoutDevelopStash
    \/ CheckoutDevelopCheckout
    \/ CheckoutDevelopPull
    \/ CheckoutMainStash
    \/ CheckoutMainCheckout
    \/ CheckoutMainPull
    \/ CrCreate
    \/ CrPush
    \/ ChCreate

Spec == Init /\ [][Next]_vars

\* repositories that also hold a branch whose name only starts with `main`
\* (mainline), next to master or alone
InitMain ==
    /\ \E m \in {{master}, {main}, {}}, t \in Topics :
         LET mainline == {<<"m","a","i","n","l","i","n","e">>}
         IN  /\ localBranches = {develop} \cup mainline \cup m \cup t.l
             /\ remoteBranches = {develop} \cup mainline \cup m \cup t.r
    /\ current \in localBranches
    /\ commits = [b \in localBranches |-> InitCommits(b)]
    /\ remoteCommits = [b \in remoteBranches |-> InitCommits(b)]
    /\ tags \in {<<>>, << <<"1">> >>}
    /\ remoteTags = Range(tags)
    /\ tree \in {"clean", "tracked"}
    /\ stash = <<>>
    /\ pc = "idle"
    /\ wf = "none"
    /\ runs = 0
    /\ outcome = [state |-> "none", offending |-> <<>>]
    /\ answers = NoAnswers
    /\ entry = Snapshot
    /\ calls = <<>>
    /\ releaseBranch = None
    /\ tagName = None
    /\ mainBranch = None
    /\ tag = None
    /\ newBranchName = None
    /\ changesStashed = FALSE

\* the release and hotfix commands on those repositories
SpecMain == InitMain /\ [][Next]_vars

\* the create-feature command.  Its runs add feature/* branches only, which
\* no release or hotfix command selects, so the two groups of commands are
\* explored apart.
NextFeature ==
    \/ createFeatureBranch
    \/ CheckoutDevelopStash
    \/ CheckoutDevelopCheckout
    \/ CheckoutDevelopPull
    \/ CfCreate
    \/ CfRestore

SpecFeature == Init /\ [][NextFeature]_vars


\* a command starts: nothing of an earlier run is left in its variables
BeginWorkflow(w) ==
    /\ Begin(w)
    /\ UNCHANGED gitVars
    /\ releaseBranch' = None
    /\ tagName' = None
    /\ mainBranch' = None
    /\ tag' = None
    /\ newBranchName' = None
    /\ changesStashed' = FALSE

(***************************************************************************)
(* branchesActions: delete-branches (branches-actions.mjs:49-102)          *)
(***************************************************************************)
\* what a checkbox prompt over `list` can return: any selection, in the
\* order of the list
Selections(list) ==
    { SelectSeq(list, LAMBDA b : b \in S) : S \in SUBSET Range(list) }

\* mutant: the confirmation is not looked at
DbProceedUnconfirmed(selectedBranches, confirm) == Len(selectedBranches) > 0

\* lines 69-72 and 83-86: the two early returns after the prompts
DbProceed(selectedBranches, confirm) ==
    Len(selectedBranches) > 0 /\ confirm

\* lines 50-88: the branches other than the current one, the checkbox, the
\* confirmation
branchesActions ==
    /\ BeginWorkflow("delete-branches")
    /\ LET branches == SelectSeq(getLocalBranches,
                                 LAMBDA b : b # getCurrentBranch)
       IN  IF Len(branches) = 0
           THEN /\ End("no-branches")
                /\ answers' = NoAnswers
           ELSE \E selectedBranches \in Selections(branches),
                   confirm \in BOOLEAN :
                /\ Len(selectedBranches) = 0 => ~confirm
                /\ answers' = [NoAnswers EXCEPT
                                 !.selectedBranches = selectedBranches,
                                 !.confirm = confirm]
                /\ IF DbProceed(selectedBranches, confirm)
                   THEN Goto("db_delete")
                   ELSE IF Len(selectedBranches) = 0
                        THEN End("none-selected")
                        ELSE End("cancelled")

\* mutant: the loop is left at the first failed deletion
DbAfterStopOnFailure(success, last) ==
    IF last \/ ~success THEN End("completed") ELSE Goto("db_delete")

\* lines 92-101: the result is printed, the loop goes on; after the last
\* branch "Operation completed."
DbAfter(success, last) ==
    IF last THEN End("completed") ELSE Goto("db_delete")

\* lines 92-99: one iteration of `for (const branch of selectedBranches)`
DbDelete ==
    /\ pc = "db_delete"
    /\ LET branch == answers.selectedBranches[Len(calls) + 1]
       IN  \E success \in BOOLEAN :
             /\ deleteLocalBranch(branch, TRUE, success)
             /\ DbAfter(success,
                        Len(calls) + 1 = Len(answers.selectedBranches))
    /\ UNCHANGED <<wf, runs, answers, entry, runVars>>

NextDelete ==
    \/ branchesActions
    \/ DbDelete

SpecDelete == Init /\ [][NextDelete]_vars

(***************************************************************************)
(* cherryPickChanges: cherry-pick (branches-actions.mjs:565-713)           *)
(***************************************************************************)
\* getLatestCommits(count): up to `count` commits of the checked-out branch
getLatestCommits(count) ==
    IF Cardinality(commits[current]) <= count THEN commits[current]
    ELSE CHOOSE S \in SUBSET commits[current] : Cardinality(S) = count

\* cherryPickCommit(hash): the commit is applied onto the checked-out
\* branch; a conflict is returned as {success: false}, never thrown
cherryPickCommit(hash, success) ==
    /\ Log("cherryPickCommit", hash, success)
    /\ IF success
       THEN /\ tree \in {"clean", "untracked"}
            /\ hash \notin commits[current]
            /\ commits' = [commits EXCEPT ![current] = @ \cup {hash}]
            /\ UNCHANGED tree
       ELSE /\ tree' = IF tree \in {"clean", "untracked"}
                          /\ hash \notin commits[current]
                       THEN "conflict" ELSE tree
            /\ UNCHANGED commits
    /\ UNCHANGED <<current, localBranches, remoteBranches, remoteCommits,
                   tags, remoteTags, stash>>

\* line 565: the command starts, the try block is entered
cherryPickChanges ==
    /\ BeginWorkflow("cherry-pick")
    /\ answers' = NoAnswers
    /\ Goto("cp_stash")

\* lines 574-583: changesStashed = stashChanges(...) on a non-empty status
CpStash == StashIfDirty("cp_stash", "cp_checkout_source")

\* mutant: the workflow stays on the branch it listed the commits of
CpOriginalBranchSource == answers.selectedBranch

\* line 570: const currentBranch = getCurrentBranch()
CpOriginalBranch == entry.current

\* lines 586-620: the other branches, the selection, the temporary checkout
CpCheckoutSource ==
    /\ pc = "cp_checkout_source"
    /\ LET branches == SelectSeq(getAllBranches,
                                 LAMBDA b : b # CpOriginalBranch)
       IN  IF Len(branches) = 0
           THEN /\ End("no-branches")
                /\ UNCHANGED gitVars
                /\ UNCHANGED <<answers, calls>>
           ELSE \E selectedBranch \in Range(branches), thrown \in BOOLEAN :
                /\ answers' = [answers EXCEPT
                                 !.selectedBranch = selectedBranch]
                /\ checkoutBranch(selectedBranch, thrown)
                /\ Rethrow(thrown, "cp_checkout_back")
    /\ UNCHANGED <<wf, runs, entry, runVars>>

\* lines 623-628: the commits are listed on the source branch, the original
\* branch is checked out again; the commit the user will pick from the
\* list (lines 649-657) is fixed here, "" when the list is empty
CpCheckoutBack ==
    /\ pc = "cp_checkout_back"
    /\ \E selectedCommit \in
            (IF getLatestCommits(20) = {} THEN {""}
             ELSE getLatestCommits(20)), thrown \in BOOLEAN :
         /\ answers' = [answers EXCEPT !.selectedCommit = selectedCommit]
         /\ checkoutBranch(CpOriginalBranch, thrown)
         /\ Rethrow(thrown, "cp_confirm")
    /\ UNCHANGED <<wf, runs, entry, runVars>>

\* lines 630-681: without commits, or after a declined confirmation, the
\* stash is applied (outside any inner try) and the function returns
CpConfirm ==
    /\ pc = "cp_confirm"
    /\ \E confirm \in BOOLEAN :
         /\ answers.selectedCommit = "" => ~confirm
         /\ answers' = [answers EXCEPT !.confirm = confirm]
         /\ IF confirm
            THEN /\ Goto("cp_pick")
                 /\ UNCHANGED gitVars
                 /\ UNCHANGED calls
            ELSE IF changesStashed
            THEN \E thrown \in BOOLEAN :
                   /\ applyStash(thrown)
                   /\ End(IF thrown THEN "error"
                          ELSE IF answers.selectedCommit = ""
                          THEN "no-commits" ELSE "cancelled")
            ELSE /\ End(IF answers.selectedCommit = ""
                        THEN "no-commits" ELSE "cancelled")
                 /\ UNCHANGED gitVars
                 /\ UNCHANGED calls
    /\ UNCHANGED <<wf, runs, entry, runVars>>

\* mutant: the stash is restored after a successful cherry-pick only
CpAfterPickSuccessOnly(success) ==
    IF success THEN Goto("cp_restore") ELSE End("completed")

\* lines 687-693: both results are printed, the function goes on
CpAfterPick(success) == Goto("cp_restore")

\* line 685: const result = cherryPickCommit(selectedCommit)
CpPick ==
    /\ pc = "cp_pick"
    /\ \E success \in BOOLEAN :
         /\ cherryPickCommit(answers.selectedCommit, success)
         /\ CpAfterPick(success)
    /\ UNCHANGED <<wf, runs, answers, entry, runVars>>

\* mutant: a failed restore is thrown on to the caller
CpRestoreRethrow ==
    /\ pc = "cp_restore"
    /\ IF changesStashed
       THEN \E thrown \in BOOLEAN :
              /\ applyStash(thrown)
              /\ End(IF thrown THEN "error" ELSE "completed")
       ELSE /\ UNCHANGED gitVars
            /\ UNCHANGED calls
            /\ End("completed")
    /\ UNCHANGED <<wf, runs, answers, entry, runVars>>

\* lines 696-708: applyStash() in its own try, a failure is only printed
CpRestore ==
    /\ pc = "cp_restore"
    /\ IF changesStashed
       THEN \E thrown \in BOOLEAN : applyStash(thrown)
       ELSE /\ UNCHANGED gitVars
            /\ UNCHANGED calls
    /\ End("completed")
    /\ UNCHANGED <<wf, runs, answers, entry, runVars>>

NextCherry ==
    \/ cherryPickChanges
    \/ CpStash
    \/ CpCheckoutSource
    \/ CpCheckoutBack
    \/ CpConfirm
    \/ CpPick
    \/ CpRestore

SpecCherry == Init /\ [][NextCherry]_vars

(***************************************************************************)
(* checkoutBranchAndUpdate: checkout-branch (branches-actions.mjs:107-200) *)
(***************************************************************************)
\* checkIfRemoteBranchExists(branchName): `git ls-remote --heads origin`;
\* true when origin has the branch, false when it has not and also when the
\* command fails
checkIfRemoteBranchExists(branchName, result) ==
    /\ Log("checkIfRemoteBranchExists", branchName, result)
    /\ result => branchName \in remoteBranches
    /\ UNCHANGED gitVars

\* lines 113-143: the branches other than the current one, the selection
checkoutBranchAndUpdate ==
    /\ BeginWorkflow("checkout-branch")
    /\ LET branches == SelectSeq(getAllBranches,
                                 LAMBDA b : b # getCurrentBranch)
       IN  IF Len(branches) = 0
           THEN /\ End("no-branches")
                /\ answers' = NoAnswers
           ELSE \E selectedBranch \in Range(branches) :
                /\ answers' = [NoAnswers EXCEPT
                                 !.selectedBranch = selectedBranch]
                /\ Goto("cb_stash")

\* lines 147-163: changesStashed = stashChanges(...) on a non-empty status
CbStash == StashIfDirty("cb_stash", "cb_checkout")

\* line 167: checkoutBranch(selectedBranch), an error is rethrown
CbCheckout ==
    /\ pc = "cb_checkout"
    /\ \E thrown \in BOOLEAN :
         /\ checkoutBranch(answers.selectedBranch, thrown)
         /\ Rethrow(thrown, "cb_remote")
    /\ UNCHANGED <<wf, runs, answers, entry, runVars>>

\* mutant: the pull does not depend on the remote
CbNeedsPullAlways(isRemoteBranch) == TRUE

\* line 173: if (isRemoteBranch)
CbNeedsPull(isRemoteBranch) == isRemoteBranch

\* lines 170-173 and 182-184: const isRemoteBranch = ...
CbRemote ==
    /\ pc = "cb_remote"
    /\ \E isRemoteBranch \in BOOLEAN :
         /\ checkIfRemoteBranchExists(answers.selectedBranch, isRemoteBranch)
         /\ IF CbNeedsPull(isRemoteBranch) THEN Goto("cb_pull")
            ELSE Goto("cb_restore")
    /\ UNCHANGED <<wf, runs, answers, entry, runVars>>

\* mutant: a failed pull is thrown on to the caller
CbPullRethrow ==
    /\ pc = "cb_pull"
    /\ \E thrown \in BOOLEAN :
         /\ pullLatestChanges(thrown)
         /\ Rethrow(thrown, "cb_restore")
    /\ UNCHANGED <<wf, runs, answers, entry, runVars>>

\* lines 174-181: pullLatestChanges() in its own try, an error is printed
CbPull ==
    /\ pc = "cb_pull"
    /\ \E thrown \in BOOLEAN : pullLatestChanges(thrown)
    /\ Goto("cb_restore")
    /\ UNCHANGED <<wf, runs, answers, entry, runVars>>

\* lines 187-199: applyStash() when changesStashed, an error is rethrown
CbRestore ==
    /\ pc = "cb_restore"
    /\ IF changesStashed
       THEN \E thrown \in BOOLEAN :
              /\ applyStash(thrown)
              /\ End(IF thrown THEN "error" ELSE "success")
       ELSE /\ End("success")
            /\ UNCHANGED gitVars
            /\ UNCHANGED calls
    /\ UNCHANGED <<wf, runs, answers, entry, runVars>>

NextCheckout ==
    \/ checkoutBranchAndUpdate
    \/ CbStash
    \/ CbCheckout
    \/ CbRemote
    \/ CbPull
    \/ CbRestore

SpecCheckout == Init /\ [][NextCheckout]_vars

(***************************************************************************)
(* merge-feature: mergeFeatureBranchCommand.  index.mjs registers it, its  *)
(* body is not among the sources; it follows the orchestrator's general    *)
(* pattern and the merge-feature workflow of the specification (4.4).      *)
(***************************************************************************)
\* mergeFeatureBranch(branch, message): `git merge --no-ff -m message`,
\* returns {success, message, isConflict} and does not throw
mergeFeatureBranch(branch, success) ==
    /\ Log("mergeFeatureBranch", branch, success)
    /\ IF success
       THEN /\ CanMerge(branch)
            /\ commits' = [commits EXCEPT ![current] = @ \cup commits[branch]]
            /\ UNCHANGED tree
       ELSE /\ ~CanMerge(branch) \/ ~(commits[branch] \subseteq commits[current])
            /\ tree' = IF CanMerge(branch) THEN "conflict" ELSE tree
            /\ UNCHANGED commits
    /\ UNCHANGED <<current, localBranches, remoteBranches, remoteCommits,
                   tags, remoteTags, stash>>

\* the feature/* branches other than the current one, the selection
mergeFeatureBranchCommand ==
    /\ BeginWorkflow("merge-feature")
    /\ LET branches == SelectSeq(FilterPrefix(getAllBranches, featurePrefix),
                                 LAMBDA b : b # getCurrentBranch)
       IN  IF Len(branches) = 0
           THEN /\ End("no-branches")
                /\ answers' = NoAnswers
           ELSE \E selectedBranch \in Range(branches) :
                /\ answers' = [NoAnswers EXCEPT
                                 !.selectedBranch = selectedBranch]
                /\ Goto("mf_stash")

\* general pattern (b): stash when the tree is dirty
MfStash == StashIfDirty("mf_stash", "mf_merge")

\* mutant: the stash is restored whatever the merge reported
MfMergeRestoreAlways ==
    /\ pc = "mf_merge"
    /\ \E success \in BOOLEAN :
         mergeFeatureBranch(answers.selectedBranch, success)
    /\ Goto("mf_restore")
    /\ UNCHANGED <<wf, runs, answers, entry, runVars>>

\* the merge; a conflict ends the run with the stash left in place
MfMerge ==
    /\ pc = "mf_merge"
    /\ \E success \in BOOLEAN :
         /\ mergeFeatureBranch(answers.selectedBranch, success)
         /\ IF success THEN Goto("mf_restore") ELSE End("conflict")
    /\ UNCHANGED <<wf, runs, answers, entry, runVars>>

\* on success and only if a stash was taken, restore it
MfRestore ==
    /\ pc = "mf_restore"
    /\ IF changesStashed
       THEN \E thrown \in BOOLEAN :
              /\ applyStash(thrown)
              /\ End(IF thrown THEN "error" ELSE "success")
       ELSE /\ End("success")
            /\ UNCHANGED gitVars
            /\ UNCHANGED calls
    /\ UNCHANGED <<wf, runs, answers, entry, runVars>>

\* repositories with a feature branch, merged into develop or not
InitMerge ==
    /\ \E m \in {{main}, {master}},
          f \in SUBSET {featurePrefix \o <<"a">>, featurePrefix \o <<"b">>} :
         /\ localBranches = {develop} \cup m \cup f
         /\ remoteBranches \in {{develop} \cup m, {develop} \cup m \cup f}
    /\ current \in localBranches
    /\ commits = [b \in localBranches |->
                    IF b = featurePrefix \o <<"a">> THEN {"c0", "cd", "cf"}
                    ELSE InitCommits(b)]
    /\ remoteCommits = [b \in remoteBranches |-> InitCommits(b)]
    /\ tags = <<>>
    /\ remoteTags = {}
    /\ tree \in {"clean", "tracked", "untracked"}
    /\ stash \in {<<>>, <<[by |-> 0]>>}
    /\ pc = "idle"
    /\ wf = "none"
    /\ runs = 0
    /\ outcome = [state |-> "none", offending |-> <<>>]
    /\ answers = NoAnswers
    /\ entry = Snapshot
    /\ calls = <<>>
    /\ releaseBranch = None
    /\ tagName = None
    /\ mainBranch = None
    /\ tag = None
    /\ newBranchName = None
    /\ changesStashed = FALSE

NextMerge ==
    \/ mergeFeatureBranchCommand
    \/ MfStash
    \/ MfMerge
    \/ MfRestore

SpecMerge == InitMerge /\ [][NextMerge]_vars

(***************************************************************************)
(* The command line: registerCommands and program.parse (commands/index.mjs *)
(* 15-77, index.mjs 16-43)                                                 *)
(***************************************************************************)
\* the subcommands a user may type
CommandSurface ==
    { "interactive", "branches", "checkout-branch", "delete-branches",
      "create-feature", "create-release", "create-hotfix", "finish-release",
      "finish-hotfix", "cherry-pick", "merge-feature" }

\* program.command(name)...action(handler): the handler of each name
registerCommands ==
    [c \in { "interactive", "branches", "checkout-branch", "delete-branches",
             "create-feature", "create-release", "create-hotfix",
             "finish-hotfix", "cherry-pick", "merge-feature" } |->
       CASE c = "interactive" -> "showInteractiveMenu"
         [] c = "branches" -> "listBranches"
         [] c = "checkout-branch" -> "checkoutBranchAndUpdate"
         [] c = "delete-branches" -> "branchesActions"
         [] c = "create-feature" -> "createFeatureBranch"
         [] c = "create-release" -> "createReleaseBranch"
         [] c = "create-hotfix" -> "createHotfix"
         [] c = "finish-hotfix" -> "finishHotfix"
         [] c = "cherry-pick" -> "cherryPickChanges"
         [] c = "merge-feature" -> "mergeFeatureBranchCommand"]

\* listBranches (branches-actions.mjs:33-47): prints, changes nothing
listBranches ==
    /\ BeginWorkflow("branches")
    /\ answers' = NoAnswers
    /\ End("listed")

\* showInteractiveMenu (index.mjs:80-168), the user choosing 'Exit'
showInteractiveMenu ==
    /\ BeginWorkflow("interactive")
    /\ answers' = NoAnswers
    /\ End("exit")

\* program.parse(process.argv), once per process: the handler registered
\* for the subcommand is called; commander reports a name it does not know
\* (error: unknown command) and the process exits
ProgramParse ==
    /\ runs = 0
    /\ \E c \in CommandSurface :
         IF c \in DOMAIN registerCommands
         THEN LET handler == registerCommands[c]
              IN  CASE handler = "showInteractiveMenu" -> showInteractiveMenu
                    [] handler = "listBranches" -> listBranches
                    [] handler = "checkoutBranchAndUpdate" ->
                         checkoutBranchAndUpdate
                    [] handler = "branchesActions" -> branchesActions
                    [] handler = "createFeatureBranch" -> createFeatureBranch
                    [] handler = "createReleaseBranch" -> createReleaseBranch
                    [] handler = "createHotfix" -> createHotfix
                    [] handler = "finishHotfix" -> finishHotfix
                    [] handler = "cherryPickChanges" -> cherryPickChanges
                    [] handler = "mergeFeatureBranchCommand" ->
                         mergeFeatureBranchCommand
         ELSE /\ BeginWorkflow(c)
              /\ answers' = NoAnswers
              /\ End("unknown-command")

\* one process: the dispatch, then the steps of the workflow it entered
NextCli ==
    \/ ProgramParse
    \/ DrStash
    \/ DrCheckoutRelease
    \/ DrCheckoutMain
    \/ DrPullMain
    \/ DrCheckoutDevelop
    \/ DrPullDevelop
    \/ DrCheckoutMainAgain
    \/ DrMergeMain
    \/ DrCheckoutDevelopAgain
    \/ DrMergeDevelop
    \/ DrMergeDevelopAgain
    \/ DrTag
    \/ DrPushMain
    \/ DrPushDevelop
    \/ DrPushTag
    \/ DrDeleteLocal
    \/ DrDeleteRemote
    \/ DrCheckoutDevelopFinal
    \/ CheckoutDevelopStash
    \/ CheckoutDevelopCheckout
    \/ CheckoutDevelopPull
    \/ CheckoutMainStash
    \/ CheckoutMainCheckout
    \/ CheckoutMainPull
    \/ CrCreate
    \/ CrPush
    \/ ChCreate
    \/ CfCreate
    \/ CfRestore
    \/ DbDelete
    \/ CpStash
    \/ CpCheckoutSource
    \/ CpCheckoutBack
    \/ CpConfirm
    \/ CpPick
    \/ CpRestore
    \/ CbStash
    \/ CbCheckout
    \/ CbRemote
    \/ CbPull
    \/ CbRestore
    \/ MfStash
    \/ MfMerge
    \/ MfRestore

SpecCli == (Init \/ InitMerge) /\ [][NextCli]_vars

(***************************************************************************)
(* The facade called directly, as the integration tests do                 *)
(***************************************************************************)
\* a client starts a series of facade calls on a fresh repository, as
\* every test does (beforeEach)
ApiBegin ==
    /\ runs = 0
    /\ BeginCreate("api")
    /\ Goto("api")

\* const stashResult = stashChanges(...)
ApiStashChanges ==
    /\ pc = "api"
    /\ Len(calls) < MaxCalls
    /\ \E r \in {"true", "false", "throw"} :
         /\ stashChanges(r)
         /\ changesStashed' = (r = "true")
         /\ Rethrow(r = "throw", "api")
    /\ CreateFrame

\* const applyResult = applyStash()
ApiApplyStash ==
    /\ pc = "api"
    /\ Len(calls) < MaxCalls
    /\ \E thrown \in BOOLEAN :
         /\ applyStash(thrown)
         /\ Rethrow(thrown, "api")
    /\ CreateFrame
    /\ UNCHANGED changesStashed

\* mutant: the branch is updated the old way, by checking it out
fetchBranchUpdatesByCheckout(branchName, result) ==
    /\ Log("fetchBranchUpdates", branchName, result)
    /\ IF result
       THEN /\ branchName \in localBranches \cap remoteBranches
            /\ commits[branchName] \subseteq remoteCommits[branchName]
            /\ commits' = [commits EXCEPT
                             ![branchName] = remoteCommits[branchName]]
            /\ current' = branchName
       ELSE UNCHANGED <<commits, current>>
    /\ UNCHANGED <<localBranches, remoteBranches, remoteCommits, tags,
                   remoteTags, tree, stash>>

\* fetchBranchUpdates(branchName): the ref of a local branch that is not
\* checked out is moved to its counterpart on origin when that is a
\* fast-forward (true, also when nothing had to move); false when the two
\* have diverged or origin cannot be reached
fetchBranchUpdates(branchName, result) ==
    /\ Log("fetchBranchUpdates", branchName, result)
    /\ IF result
       THEN /\ branchName \in localBranches \cap remoteBranches
            /\ commits[branchName] \subseteq remoteCommits[branchName]
            /\ commits' = [commits EXCEPT
                             ![branchName] = remoteCommits[branchName]]
       ELSE UNCHANGED commits
    /\ UNCHANGED <<current, localBranches, remoteBranches, remoteCommits,
                   tags, remoteTags, tree, stash>>

\* the second clone of the tests commits on a branch and pushes it to
\* origin, with -f in the test of the diverged case; once, before the
\* facade is called
ApiRemotePush ==
    /\ pc = "api"
    /\ calls = <<>>
    /\ \A x \in remoteBranches : "cx" \notin remoteCommits[x]
    /\ \E b \in remoteBranches, forced \in BOOLEAN :
         /\ remoteCommits' = [remoteCommits EXCEPT
                                ![b] = IF forced THEN {"c0", "cx"}
                                       ELSE @ \cup {"cx"}]
    /\ UNCHANGED <<current, localBranches, remoteBranches, commits, tags,
                   remoteTags, tree, stash>>
    /\ UNCHANGED <<pc, wf, runs, outcome, answers, entry, calls, runVars>>

\* const fetchResult = fetchBranchUpdates('main'), on another branch
ApiFetchBranchUpdates ==
    /\ pc = "api"
    /\ Len(calls) < MaxCalls
    /\ \E b \in localBranches \ {current}, result \in BOOLEAN :
         fetchBranchUpdates(b, result)
    /\ Goto("api")
    /\ CreateFrame
    /\ UNCHANGED changesStashed

\* mutant: every failed deletion asks for force
requireForceOnAnyFailure(branchName, force, success) == ~success

\* requireForce: !force && error.message.includes('not fully merged'); git
\* gives that message for an existing branch, not checked out, whose commits
\* are neither in HEAD nor in its upstream
requireForce(branchName, force, success) ==
    /\ ~success
    /\ ~force
    /\ branchName \in localBranches
    /\ branchName # current
    /\ ~CanDeleteLocal(branchName, FALSE)

\* const result = deleteLocalBranch(name, force): the result object is
\* returned and looked at, which ends the series of calls
ApiDeleteLocalBranch ==
    /\ pc = "api"
    /\ Len(calls) < MaxCalls
    /\ \E b \in localBranches \cup {release1}, force \in BOOLEAN,
          success \in BOOLEAN :
         /\ deleteLocalBranch(b, force, success)
         /\ End(IF success THEN "deleted"
                ELSE IF requireForce(b, force, success) THEN "require-force"
                ELSE "failed")
    /\ CreateFrame
    /\ UNCHANGED changesStashed

NextApi ==
    \/ ApiBegin
    \/ ApiStashChanges
    \/ ApiApplyStash
    \/ ApiRemotePush
    \/ ApiFetchBranchUpdates
    \/ ApiDeleteLocalBranch

SpecApi == Init /\ [][NextApi]_vars

(***************************************************************************)
(* toKebabCase applied to strings                                          *)
(***************************************************************************)
KebabChars == {"A", "b", "1", " ", "\t", "_", "-", "!"}

RECURSIVE StringsUpTo(_)
StringsUpTo(n) ==
    IF n = 0 THEN { <<>> }
    ELSE StringsUpTo(n - 1) \cup
         { Append(s, c) : s \in StringsUpTo(n - 1), c \in KebabChars }

\* the strings of the unit test
KebabExamples ==
    { <<"H","e","l","l","o"," ","W","o","r","l","d">>,
      <<" "," ","M","u","l","t","i","p","l","e"," "," "," ","S","p","a","c","e","s"," "," ">>,
      <<"s","p","e","c","i","a","l","_","c","h","a","r","s","!","@","#">>,
      <<"M","i","x","e","d","C","a","s","e","S","t","r","i","n","g">>,
      <<"w","i","t","h","-","e","x","i","s","t","i","n","g","-","h","y","p","h","e","n","s">> }

KebabInputs == StringsUpTo(MaxLen) \cup KebabExamples

\* one repository, nothing running, a string about to be converted
InitKebab ==
    /\ localBranches = {develop, main}
    /\ remoteBranches = {develop, main}
    /\ current = develop
    /\ commits = [b \in localBranches |-> InitCommits(b)]
    /\ remoteCommits = [b \in remoteBranches |-> InitCommits(b)]
    /\ tags = <<>>
    /\ remoteTags = {}
    /\ tree = "clean"
    /\ stash = <<>>
    /\ pc = "idle"
    /\ wf = "none"
    /\ runs = 0
    /\ outcome = [state |-> "none", offending |-> <<>>]
    /\ \E text \in KebabInputs :
         answers = [NoAnswers EXCEPT !.branchName = text]
    /\ entry = Snapshot
    /\ calls = <<>>
    /\ releaseBranch = None
    /\ tagName = None
    /\ mainBranch = None
    /\ tag = None
    /\ newBranchName = None
    /\ changesStashed = FALSE

\* toKebabCase(text); the result is kept in newBranchName
KebabApply ==
    /\ pc = "idle"
    /\ wf = "none"
    /\ wf' = "kebab"
    /\ pc' = "kebab_once"
    /\ newBranchName' = toKebabCase(answers.branchName)
    /\ UNCHANGED gitVars
    /\ UNCHANGED <<runs, outcome, answers, entry, calls, releaseBranch,
                   tagName, mainBranch, tag, changesStashed>>

\* toKebabCase applied to its own result; the second result is kept in tag
KebabApplyAgain ==
    /\ pc = "kebab_once"
    /\ pc' = "kebab_twice"
    /\ tag' = toKebabCase(newBranchName)
    /\ UNCHANGED gitVars
    /\ UNCHANGED <<wf, runs, outcome, answers, entry, calls, releaseBranch,
                   tagName, mainBranch, newBranchName, changesStashed>>

NextKebab ==
    \/ KebabApply
    \/ KebabApplyAgain

SpecKebab == InitKebab /\ [][NextKebab]_vars

(***************************************************************************)
(* Properties                                                              *)
(***************************************************************************)
CallsOf(op) == SelectSeq(calls, LAMBDA c : c.op = op)

ArgsOf(op) == [i \in 1..Len(CallsOf(op)) |-> CallsOf(op)[i].arg]

FirstIndex(op) == CHOOSE i \in 1..Len(calls) :
                     /\ calls[i].op = op
                     /\ \A j \in 1..(i - 1) : calls[j].op # op

AllOk == \A i \in 1..Len(calls) : calls[i].ok

Ended(w, state) == wf \in w /\ pc = "idle" /\ outcome.state = state

AllBranchNames == localBranches \cup remoteBranches

WithPrefix(S, p) == { b \in S : startsWith(b, p) }

\* the commits the finished branch had when the run started
EntryCommitsOf(b) ==
    IF b \in entry.localBranches THEN entry.commits[b]
    ELSE entry.remoteCommits[b]

\* C1: doRelease invokes no mutation unless a candidate branch with the
\* prefix exists, a main branch was resolved and the user confirmed; after a
\* declined confirmation the repository is as it was at entry.
C1_NoMutationBeforeConfirm ==
    wf \in FinishTypes =>
      /\ calls # <<>> =>
           /\ answers.confirm
           /\ mainBranch # None
           /\ startsWith(releaseBranch, BranchPrefixOf(wf))
           /\ releaseBranch \in entry.localBranches \cup entry.remoteBranches
      /\ (pc = "idle" /\ outcome.state \in {"cancelled", "no-main",
                                           "no-candidates"}) =>
           /\ calls = <<>>
           /\ Snapshot = entry

C1_Witness ==
    /\ Ended(FinishTypes, "cancelled")
    /\ entry.tree = "tracked"
    /\ releaseBranch \in entry.localBranches

\* C2: a confirmed finish run in which the user declines the tag and every
\* step succeeds never invokes createTag and pushes exactly main and develop.
C2_DeclinedTagNotCreated ==
    (Ended(FinishTypes, "completed") /\ answers.confirm
       /\ ~answers.createTagConfirm) =>
      /\ CallsOf("createTag") = <<>>
      /\ Range(ArgsOf("pushToRemote")) = {mainBranch, develop}
      /\ tagName \notin Range(ArgsOf("pushToRemote"))

\* C3: a finish run with merge and tag confirmed in which every step
\* succeeds invokes createTag once and pushToRemote three times, for main,
\* develop and the tag in this order, the tag being created before the
\* first push.
C3_TagThenThreePushes ==
    (Ended(FinishTypes, "completed") /\ answers.confirm
       /\ answers.createTagConfirm) =>
      /\ Len(CallsOf("createTag")) = 1
      /\ ArgsOf("pushToRemote") = <<mainBranch, develop, tagName>>
      /\ tagName \in TagSet
      /\ FirstIndex("createTag") < FirstIndex("pushToRemote")

C3_Witness ==
    /\ Ended({"finish-hotfix"}, "completed")
    /\ answers.createTagConfirm
    /\ Len(CallsOf("pushToRemote")) = 3

\* C4: a failed mergeBranch in the finish workflow is the last operation of
\* the run: nothing is tagged, pushed or deleted after it, the finished
\* branch still exists and the stash of the run stays on the stack.
C4_MergeFailureAborts ==
    wf \in FinishTypes =>
      \A i \in 1..Len(calls) :
        (calls[i].op = "mergeBranch" /\ ~calls[i].ok) =>
          /\ i = Len(calls)
          /\ pc = "idle"
          /\ releaseBranch \in localBranches
          /\ CallsOf("applyStash") = <<>>
          /\ entry.tree = "tracked" =>
               /\ stash = <<[by |-> runs]>> \o entry.stash
               /\ tree # "tracked"

C4_Witness ==
    /\ wf \in FinishTypes
    /\ calls # <<>>
    /\ calls[Len(calls)].op = "mergeBranch"
    /\ ~calls[Len(calls)].ok
    /\ current = develop
    /\ entry.tree = "tracked"

\* C5: when a finish run with the tag confirmed is completed, main and
\* develop contain the commits of the finished branch, the chosen tag
\* exists, the finished branch is gone locally and on origin, and develop is
\* checked out.
C5_CompletedState ==
    (Ended(FinishTypes, "completed") /\ answers.createTagConfirm) =>
      /\ EntryCommitsOf(releaseBranch) \subseteq commits[mainBranch]
      /\ EntryCommitsOf(releaseBranch) \subseteq commits[develop]
      /\ tag \in TagSet
      /\ releaseBranch \notin localBranches
      /\ releaseBranch \notin remoteBranches
      /\ current = develop

C5_Witness ==
    /\ Ended({"finish-release"}, "completed")
    /\ answers.createTagConfirm
    /\ ~(EntryCommitsOf(releaseBranch) \subseteq entry.commits[develop])
    /\ releaseBranch \in entry.remoteBranches

\* C6: create-release / create-hotfix started while the combined branch
\* list has a branch with the prefix fails with an error naming those
\* branches before any mutation, the repository unchanged.
C6_BlockedCreateFailsFirst ==
    (wf \in {"create-release", "create-hotfix"}
       /\ WithPrefix(entry.localBranches \cup entry.remoteBranches,
                     BranchPrefixOf(wf)) # {}) =>
      /\ pc = "idle"
      /\ outcome.state = "error"
      /\ Range(outcome.offending) =
           WithPrefix(entry.localBranches \cup entry.remoteBranches,
                      BranchPrefixOf(wf))
      /\ calls = <<>>
      /\ Snapshot = entry

C6_Witness ==
    /\ Ended({"create-hotfix"}, "error")
    /\ outcome.offending = <<hotfix2>>
    /\ entry.tree = "tracked"

\* C7: whatever create-release, create-hotfix, finish-release and
\* finish-hotfix runs happened and however they ended, there is at most one
\* release/* and at most one hotfix/* branch, local and origin together.
C7_AtMostOneReleaseAndHotfix ==
    /\ Cardinality(WithPrefix(AllBranchNames, releasePrefix)) <= 1
    /\ Cardinality(WithPrefix(AllBranchNames, hotfixPrefix)) <= 1

C7_Witness ==
    /\ Ended({"create-release"}, "success")
    /\ runs = 2
    /\ WithPrefix(entry.remoteBranches, hotfixPrefix) # {}
    /\ newBranchName \in remoteBranches
    /\ newBranchName # release1

\* the names create-feature has to produce for the inputs of the model
ExpectedFeatureName(issueKey, branchName) ==
    CASE issueKey = <<"J","I","R","A","-","1","2","3">> /\ branchName = <<"T","e","s","t"," ","F","e","a","t","u","r","e">> -> <<"f","e","a","t","u","r","e","/","j","i","r","a","-","1","2","3","-","t","e","s","t","-","f","e","a","t","u","r","e">>
      [] issueKey = <<"J","I","R","A","-","1","2","3">> /\ branchName = <<" ","f","i","x"," "," ","I","t","!"," ">> -> <<"f","e","a","t","u","r","e","/","j","i","r","a","-","1","2","3","-","f","i","x","-","i","t">>
      [] issueKey = <<"A","_","1">> /\ branchName = <<"T","e","s","t"," ","F","e","a","t","u","r","e">> -> <<"f","e","a","t","u","r","e","/","a","-","1","-","t","e","s","t","-","f","e","a","t","u","r","e">>
      [] issueKey = <<"A","_","1">> /\ branchName = <<" ","f","i","x"," "," ","I","t","!"," ">> -> <<"f","e","a","t","u","r","e","/","a","-","1","-","f","i","x","-","i","t">>

\* C8: create-feature with issue key k and name n creates exactly one new
\* branch, feature/<normalize(k)>-<normalize(n)>, from develop, and that
\* branch is checked out afterwards.
C8_FeatureBranchCreated ==
    (wf = "create-feature" /\ calls # <<>>
       /\ calls[Len(calls)].op = "createBranch" /\ calls[Len(calls)].ok) =>
      /\ newBranchName =
           ExpectedFeatureName(answers.issueKey, answers.branchName)
      /\ calls[Len(calls)].arg = newBranchName
      /\ newBranchName \notin entry.localBranches
      /\ localBranches = entry.localBranches \cup {newBranchName}
      /\ commits[newBranchName] = commits[develop]
      /\ current = newBranchName
      /\ Len(CallsOf("createBranch")) = 1

C8_Witness ==
    /\ wf = "create-feature"
    /\ pc = "idle"
    /\ answers.issueKey = <<"J","I","R","A","-","1","2","3">>
    /\ answers.branchName = <<"T","e","s","t"," ","F","e","a","t","u","r","e">>
    /\ current = <<"f","e","a","t","u","r","e","/","j","i","r","a","-","1","2","3","-","t","e","s","t","-","f","e","a","t","u","r","e">>

\* C9: create-feature on a dirty tree, every step succeeding, pops the
\* stash it took after the branch is created: the changes are back on the
\* new branch and the stash stack is as deep as at entry.
C9_StashRestoredOnFeature ==
    (wf = "create-feature" /\ pc = "idle" /\ entry.tree = "tracked"
       /\ AllOk /\ CallsOf("createBranch") # <<>>) =>
      /\ CallsOf("applyStash") # <<>>
      /\ tree = "tracked"
      /\ Len(stash) = Len(entry.stash)
      /\ current = newBranchName

\* C10: create-feature ends in error only if one of its steps failed; when
\* every step succeeds it ends in success.
C10_ErrorOnlyOnFailedStep ==
    (wf = "create-feature" /\ pc = "idle") =>
      /\ outcome.state = "error" => ~AllOk
      /\ (AllOk /\ CallsOf("createBranch") # <<>>) =>
           outcome.state = "success"

C12_KebabIdempotent ==
    (wf = "kebab" /\ pc = "kebab_twice") => tag = newBranchName

C12_Witness ==
    /\ wf = "kebab"
    /\ pc = "kebab_twice"
    /\ answers.branchName = <<" ", "A", "_">>
    /\ tag = <<"a", "-">>

\* the conversion as the documentation words it, computed by position:
\* cut at the first and last non-blank character, lower-case, keep letters,
\* digits, underscore, hyphen and blanks, and write one hyphen for the first
\* character of every run of blanks and underscores
KebabOracle(s) ==
    LET nonBlank == { i \in 1..Len(s) : ~IsSpace(s[i]) }
        lo == CHOOSE i \in nonBlank : \A j \in nonBlank : i <= j
        hi == CHOOSE i \in nonBlank : \A j \in nonBlank : i >= j
        t  == IF nonBlank = {} THEN <<>>
              ELSE [i \in 1..(hi - lo + 1) |-> LowerOf(s[lo + i - 1])]
        u  == SelectSeq(t, LAMBDA c :
                c \in Range(LowerChars) \cup Range(DigitChars)
                        \cup {"_", "-", " ", "\t"})
        Sep(i) == u[i] \in {" ", "\t", "_"}
        F[i \in 0..Len(u)] ==
            IF i = 0 THEN <<>>
            ELSE IF ~Sep(i) THEN Append(F[i - 1], u[i])
            ELSE IF i > 1 /\ Sep(i - 1) THEN F[i - 1]
            ELSE Append(F[i - 1], "-")
    IN  F[Len(u)]

\* the expectations of the unit test
KebabExpected(s) ==
    CASE s = <<"H","e","l","l","o"," ","W","o","r","l","d">> ->
           <<"h","e","l","l","o","-","w","o","r","l","d">>
      [] s = <<" "," ","M","u","l","t","i","p","l","e"," "," "," ","S","p","a","c","e","s"," "," ">> ->
           <<"m","u","l","t","i","p","l","e","-","s","p","a","c","e","s">>
      [] s = <<"s","p","e","c","i","a","l","_","c","h","a","r","s","!","@","#">> ->
           <<"s","p","e","c","i","a","l","-","c","h","a","r","s">>
      [] s = <<"M","i","x","e","d","C","a","s","e","S","t","r","i","n","g">> ->
           <<"m","i","x","e","d","c","a","s","e","s","t","r","i","n","g">>
      [] s = <<"w","i","t","h","-","e","x","i","s","t","i","n","g","-","h","y","p","h","e","n","s">> ->
           s

\* C13: toKebabCase returns the input trimmed, lower-cased, without the
\* characters that are not alphanumeric, underscore, hyphen or whitespace,
\* with one hyphen for every run of whitespace and underscores; the result
\* has no uppercase letter, no whitespace and no underscore, and the
\* examples give 'multiple-spaces' and 'special-chars'.
C13_KebabResult ==
    (wf = "kebab") =>
      /\ newBranchName = KebabOracle(answers.branchName)
      /\ \A i \in 1..Len(newBranchName) :
           newBranchName[i] \in Range(LowerChars) \cup Range(DigitChars)
                                  \cup {"-"}
      /\ answers.branchName \in KebabExamples =>
           newBranchName = KebabExpected(answers.branchName)

C13_Witness ==
    /\ wf = "kebab"
    /\ answers.branchName = <<" "," ","M","u","l","t","i","p","l","e"," "," "," ","S","p","a","c","e","s"," "," ">>
    /\ newBranchName = <<"m","u","l","t","i","p","l","e","-","s","p","a","c","e","s">>

\* C14: once delete-branches is confirmed, the calls of the run are the
\* forced deletions of the selected branches, one each, in selection order,
\* whatever the earlier ones returned; the run ends completed, not in error.
C14_EverySelectedBranchAttempted ==
    (wf = "delete-branches" /\ answers.confirm) =>
      /\ Len(calls) <= Len(answers.selectedBranches)
      /\ \A i \in 1..Len(calls) :
           /\ calls[i].op = "deleteLocalBranch -D"
           /\ calls[i].arg = answers.selectedBranches[i]
      /\ pc = "idle" =>
           /\ Len(calls) = Len(answers.selectedBranches)
           /\ outcome.state = "completed"
      /\ pc # "idle" => Len(calls) < Len(answers.selectedBranches)

C14_Witness ==
    /\ Ended({"delete-branches"}, "completed")
    /\ Len(calls) = 3
    /\ ~calls[1].ok
    /\ calls[2].ok
    /\ ~calls[3].ok

\* C15: delete-branches deletes nothing when no branch other than the
\* current one exists (nothing is asked then), when nothing is selected or
\* when the confirmation is declined; the repository stays as it was.
C15_NoDeletionWithoutConfirm ==
    (wf = "delete-branches"
       /\ \/ entry.localBranches \ {entry.current} = {}
          \/ answers.selectedBranches = <<>>
          \/ ~answers.confirm) =>
      /\ calls = <<>>
      /\ pc = "idle"
      /\ Snapshot = entry
      /\ entry.localBranches \ {entry.current} = {} =>
           /\ answers = NoAnswers
           /\ outcome.state = "no-branches"

C15_Witness ==
    /\ Ended({"delete-branches"}, "cancelled")
    /\ Len(answers.selectedBranches) = 2

\* C16: in cherry-pick, once cherryPickCommit has run in an invocation
\* whose stashChanges returned true, applyStash is invoked after it, whether
\* the cherry-pick succeeded or failed.
C16_StashRestoredAfterPick ==
    (wf = "cherry-pick" /\ pc = "idle" /\ changesStashed
       /\ CallsOf("cherryPickCommit") # <<>>) =>
      /\ Len(CallsOf("applyStash")) = 1
      /\ FirstIndex("cherryPickCommit") < FirstIndex("applyStash")
      /\ outcome.state = "completed"

C16_Witness ==
    /\ Ended({"cherry-pick"}, "completed")
    /\ changesStashed
    /\ entry.tree = "tracked"
    /\ \E i \in 1..Len(calls) :
         calls[i].op = "cherryPickCommit" /\ ~calls[i].ok
    /\ calls[Len(calls)].op = "applyStash"

\* C17: in cherry-pick the source branch is checked out only to list its
\* commits: when cherryPickCommit is invoked the branch of the start is
\* checked out again, the commit lands on it and the source branch keeps
\* its commits.
C17_PickOntoOriginalBranch ==
    (wf = "cherry-pick" /\ CallsOf("cherryPickCommit") # <<>>) =>
      /\ current = entry.current
      /\ answers.selectedBranch # entry.current
      /\ ArgsOf("checkoutBranch") = <<answers.selectedBranch, entry.current>>
      /\ commits[answers.selectedBranch] =
           EntryCommitsOf(answers.selectedBranch)
      /\ CallsOf("cherryPickCommit")[1].ok =>
           commits[entry.current] =
             entry.commits[entry.current] \cup {answers.selectedCommit}

C17_Witness ==
    /\ wf = "cherry-pick"
    /\ CallsOf("cherryPickCommit") # <<>>
    /\ CallsOf("cherryPickCommit")[1].ok
    /\ answers.selectedBranch = release1
    /\ answers.selectedCommit = "cr"
    /\ entry.current = develop

C19_FetchKeepsBranchAndTree ==
    [][(wf' = "api" /\ Len(calls') = Len(calls) + 1
          /\ calls'[Len(calls')].op = "fetchBranchUpdates") =>
         /\ calls'[Len(calls')].arg # current
         /\ current' = current
         /\ tree' = tree
         /\ stash' = stash
         /\ localBranches' = localBranches
         /\ IF calls'[Len(calls')].ok
            THEN commits'[calls'[Len(calls')].arg] =
                   remoteCommits[calls'[Len(calls')].arg]
            ELSE commits' = commits]_vars

C19_Witness ==
    /\ wf = "api"
    /\ calls # <<>>
    /\ calls[Len(calls)].op = "fetchBranchUpdates"
    /\ calls[Len(calls)].ok
    /\ "cx" \in commits[calls[Len(calls)].arg]
    /\ tree = "tracked"

\* C20: in a finish run a refresh of main or develop that fails does not
\* end the run: the merge of the release/hotfix branch into main is still
\* invoked after it.
C20_RefreshFailureNotFatal ==
    (wf \in FinishTypes /\ pc = "idle") =>
      \A i \in 1..Len(calls) :
        (calls[i].op = "pullLatestChanges" /\ ~calls[i].ok) =>
          \E j \in (i + 1)..Len(calls) : calls[j].op = "mergeBranch"

\* C21: the finish workflow deletes the finished branch locally without
\* force only; a failed local deletion is the last operation of the run:
\* nothing is deleted with force, deleteRemoteBranch is not invoked, and the
\* branch is still there locally and, where it was on origin, on origin.
\* deleteRemoteBranch is invoked only after a local deletion that succeeded.
C21_FailedLocalDeleteAborts ==
    wf \in FinishTypes =>
      /\ CallsOf("deleteLocalBranch -D") = <<>>
      /\ \A i \in 1..Len(calls) :
           /\ (calls[i].op = "deleteLocalBranch -d" /\ ~calls[i].ok) =>
                /\ i = Len(calls)
                /\ calls[i].arg = releaseBranch
                /\ pc = "idle"
                /\ CallsOf("deleteRemoteBranch") = <<>>
                /\ releaseBranch \in localBranches
                /\ releaseBranch \in entry.remoteBranches =>
                     releaseBranch \in remoteBranches
           /\ calls[i].op = "deleteRemoteBranch" =>
                /\ i > 1
                /\ calls[i - 1] = [op |-> "deleteLocalBranch -d",
                                   arg |-> releaseBranch, ok |-> TRUE]

C21_Witness ==
    /\ Ended(FinishTypes, "delete-failed")
    /\ calls[Len(calls)].op = "deleteLocalBranch -d"
    /\ ~calls[Len(calls)].ok
    /\ releaseBranch \in remoteBranches
    /\ Len(CallsOf("pushToRemote")) = 3

\* C22: create-release creates release/<tag> from develop and its next
\* operation, invoked only after a createBranch that succeeded, is
\* setUpstreamAndPush for the new branch; create-hotfix creates hotfix/<tag>
\* from the main branch and pushes nothing.
C22_ReleasePushedHotfixNot ==
    /\ wf = "create-release" =>
         \A i \in 1..Len(calls) :
           /\ calls[i].op = "setUpstreamAndPush" =>
                /\ i > 1
                /\ calls[i - 1] = [op |-> "createBranch",
                                   arg |-> releasePrefix \o tag, ok |-> TRUE]
                /\ calls[i].arg = releasePrefix \o tag
           /\ (calls[i].op = "createBranch" /\ calls[i].ok) =>
                /\ calls[i].arg = releasePrefix \o tag
                /\ commits[releasePrefix \o tag] = commits[develop]
                /\ IF i = Len(calls) THEN pc = "cr_push"
                   ELSE calls[i + 1].op = "setUpstreamAndPush"
    /\ wf = "create-hotfix" =>
         /\ CallsOf("setUpstreamAndPush") = <<>>
         /\ CallsOf("pushToRemote") = <<>>
         /\ remoteBranches = entry.remoteBranches
         /\ \A i \in 1..Len(calls) :
              (calls[i].op = "createBranch" /\ calls[i].ok) =>
                /\ calls[i].arg = hotfixPrefix \o tag
                /\ getMainBranch # None
                /\ commits[hotfixPrefix \o tag] = commits[getMainBranch]

C22_Witness ==
    /\ Ended({"create-release"}, "success")
    /\ calls[Len(calls)] = [op |-> "setUpstreamAndPush",
                            arg |-> newBranchName, ok |-> TRUE]
    /\ newBranchName \in remoteBranches \ entry.remoteBranches
    /\ entry.current # develop

\* C23: in a merge-feature run applyStash is invoked only after the merge
\* succeeded and only when the stashChanges of this run returned true; a
\* merge that reports a conflict is the last operation of the run: no
\* restore follows and the stash the run took stays on the stack.
C23_MergeFeatureStashPolicy ==
    wf = "merge-feature" =>
      \A i \in 1..Len(calls) :
        /\ calls[i].op = "applyStash" =>
             /\ changesStashed
             /\ i > 1
             /\ calls[i - 1].op = "mergeFeatureBranch"
             /\ calls[i - 1].ok
             /\ calls[1].op = "stashChanges"
        /\ (calls[i].op = "mergeFeatureBranch" /\ ~calls[i].ok) =>
             /\ i = Len(calls)
             /\ pc = "idle"
             /\ Len(stash) >= Len(entry.stash)
             /\ entry.tree = "tracked" =>
                  stash = <<[by |-> runs]>> \o entry.stash

C23_Witness ==
    /\ Ended({"merge-feature"}, "conflict")
    /\ entry.tree = "tracked"
    /\ changesStashed
    /\ tree = "conflict"
    /\ Head(stash).by = runs

\* C24: whichever subcommand of the command surface the process is started
\* with, registerCommands knows the name and the run enters the entry point
\* of that subcommand, a different one for each name: no invocation ends as
\* an unknown command and the workflow entered is the one invoked.
C24_EverySubcommandDispatched ==
    runs > 0 =>
      /\ outcome.state # "unknown-command"
      /\ wf \in DOMAIN registerCommands
      /\ \A c \in DOMAIN registerCommands :
           registerCommands[c] = registerCommands[wf] => c = wf

\* the place of a facade operation in the order of the finish workflow;
\* checkouts (0) move between the branches and take no place of their own
DrRank(op) ==
    CASE op = "stashChanges" -> 1
      [] op = "pullLatestChanges" -> 2
      [] op = "mergeBranch" -> 3
      [] op = "createTag" -> 4
      [] op = "pushToRemote" -> 5
      [] op = "deleteLocalBranch -d" -> 6
      [] op = "deleteRemoteBranch" -> 7
      [] OTHER -> 0

\* C25: in every finish run the operations come in the order stash, refresh
\* (pulls), merges, tag, pushes, local deletion, remote deletion, and every
\* operation but the last one of the run succeeded; the first merge is made
\* right after main was checked out, the next right after develop was
\* checked out; a push has both merges before it, the local deletion has the
\* three pushes before it, and the remote deletion is followed by the
\* checkout of develop only.
C25_FinishOrder ==
    wf \in FinishTypes =>
      /\ \A i \in 1..Len(calls) :
           /\ i < Len(calls) => calls[i].ok
           /\ \A j \in (i + 1)..Len(calls) :
                (DrRank(calls[i].op) > 0 /\ DrRank(calls[j].op) > 0) =>
                  DrRank(calls[i].op) <= DrRank(calls[j].op)
           /\ calls[i].op = "mergeBranch" =>
                /\ calls[i].arg = releaseBranch
                /\ calls[i - 1].op \in {"checkoutBranch", "mergeBranch"}
                /\ calls[i - 1].op = "checkoutBranch" =>
                     calls[i - 1].arg =
                       (IF \E k \in 1..(i - 1) : calls[k].op = "mergeBranch"
                        THEN develop ELSE mainBranch)
           /\ calls[i].op = "pushToRemote" =>
                /\ \E k \in 1..(i - 1) :
                     /\ calls[k].op = "mergeBranch"
                     /\ calls[k - 1] = [op |-> "checkoutBranch",
                                        arg |-> mainBranch, ok |-> TRUE]
                /\ \E k \in 1..(i - 1) :
                     /\ calls[k].op = "mergeBranch"
                     /\ calls[k - 1] = [op |-> "checkoutBranch",
                                        arg |-> develop, ok |-> TRUE]
           /\ calls[i].op = "deleteLocalBranch -d" =>
                /\ i > 3
                /\ \A k \in (i - 3)..(i - 1) : calls[k].op = "pushToRemote"
           /\ (calls[i].op = "checkoutBranch" /\ i > 1
                 /\ DrRank(calls[i - 1].op) > 3) =>
                /\ calls[i - 1].op = "deleteRemoteBranch"
                /\ calls[i].arg = develop
                /\ i = Len(calls)
      /\ calls # <<>> => calls[1].op = "stashChanges"

C25_Witness ==
    /\ Ended(FinishTypes, "completed")
    /\ Len(calls) = 18
    /\ entry.tree = "tracked"
    /\ calls[Len(calls)].op = "checkoutBranch"

\* C26: a finish run that is completed invoked mergeBranch exactly twice,
\* the first time right after main was checked out and the second time
\* right after develop was checked out: no target is merged into twice.
C26_MergedExactlyTwice ==
    Ended(FinishTypes, "completed") =>
      /\ Len(CallsOf("mergeBranch")) = 2
      /\ \A i \in 1..Len(calls) :
           calls[i].op = "mergeBranch" =>
             /\ calls[i - 1].op = "checkoutBranch"
             /\ calls[i - 1].arg \in {mainBranch, develop}

\* C27: in a finish run the name handed to the push of the tag, the third
\* pushToRemote, is the name createTag was invoked with, whatever name the
\* user entered at the tag prompt.
C27_PushedTagIsCreatedTag ==
    (wf \in FinishTypes /\ Len(CallsOf("pushToRemote")) = 3) =>
      /\ Len(CallsOf("createTag")) = 1
      /\ ArgsOf("pushToRemote")[3] = ArgsOf("createTag")[1]
      /\ ArgsOf("createTag")[1] = answers.releaseTag

\* C28: a finish run whose merge failed, into main or into develop, ends in
\* the aborted-on-conflict state reached through the handler of the merge.
C28_DevelopConflictSameAsMain ==
    (wf \in FinishTypes /\ calls # <<>>
       /\ calls[Len(calls)].op = "mergeBranch"
       /\ ~calls[Len(calls)].ok) =>
      /\ pc = "idle"
      /\ outcome.state = "conflict"

\* the first name of the combined branch list of the entry state that is
\* main or starts with master, None when there is none
MainOrMasterAtEntry ==
    LET all == SortNames(entry.localBranches)
                 \o SortNames(entry.remoteBranches \ entry.localBranches)
        found == SelectSeq(all, LAMBDA b : b = main \/ startsWith(b, master))
    IN  IF found = <<>> THEN None ELSE Head(found)

\* C29: the main branch a finish run works with, and the branch create-hotfix
\* checks out as its base, is the first branch of the combined list that is
\* named main or starts with master; a finish run without such a branch ends
\* before any mutation.
C29_MainBranchResolved ==
    /\ (wf \in FinishTypes /\ releaseBranch # None) =>
         /\ mainBranch = MainOrMasterAtEntry
         /\ MainOrMasterAtEntry = None =>
              /\ pc = "idle"
              /\ calls = <<>>
              /\ Snapshot = entry
    /\ wf = "create-hotfix" =>
         \A i \in 1..Len(calls) :
           calls[i].op = "checkoutBranch" =>
             calls[i].arg = MainOrMasterAtEntry

\* C30: in every run of a command stashChanges is invoked at most once and
\* at most one entry is added to the stash stack; applyStash is invoked at
\* most once and only after a stashChanges of the same run that returned
\* true, which a clean tree at entry rules out.
C30_OneStashPerInvocation ==
    runs > 0 =>
      /\ Len(CallsOf("stashChanges")) <= 1
      /\ Len(stash) <= Len(entry.stash) + 1
      /\ Len(CallsOf("applyStash")) <= 1
      /\ \A i \in 1..Len(calls) :
           calls[i].op = "applyStash" =>
             /\ changesStashed
             /\ entry.tree # "clean"
             /\ \E k \in 1..(i - 1) :
                  calls[k].op = "stashChanges" /\ calls[k].ok

C30_Witness ==
    /\ Ended({"checkout-branch"}, "success")
    /\ entry.tree = "tracked"
    /\ CallsOf("applyStash") # <<>>
    /\ calls[Len(calls)].ok
    /\ stash = entry.stash

\* C31: whatever the working tree holds, a stashChanges() that returned true
\* pushed exactly one entry onto the stash stack, and one that returned
\* false left the stash stack and the working tree as they were.
C31_StashResultMatchesEffect ==
    (wf = "api" /\ Len(calls) = 1 /\ calls[1].op = "stashChanges"
       /\ calls[1].ok) =>
      /\ changesStashed =>
           /\ Len(stash) = Len(entry.stash) + 1
           /\ Tail(stash) = entry.stash
      /\ ~changesStashed =>
           /\ stash = entry.stash
           /\ tree = entry.tree

\* C32: in a cherry-pick run a failed applyStash that follows the
\* cherryPickCommit is the last operation and is not rethrown: the run ends
\* completed, and the entry the run pushed is still on the stash stack.
C32_RestoreFailureIsWarning ==
    wf = "cherry-pick" =>
      \A i \in 1..Len(calls) :
        (calls[i].op = "applyStash" /\ ~calls[i].ok
           /\ CallsOf("cherryPickCommit") # <<>>) =>
          /\ i = Len(calls)
          /\ calls[i - 1].op = "cherryPickCommit"
          /\ pc = "idle"
          /\ outcome.state = "completed"
          /\ stash = (IF entry.tree = "tracked" THEN <<[by |-> runs]>>
                      ELSE <<>>) \o entry.stash

C32_Witness ==
    /\ Ended({"cherry-pick"}, "completed")
    /\ calls[Len(calls)].op = "applyStash"
    /\ ~calls[Len(calls)].ok
    /\ entry.tree = "tracked"
    /\ calls[Len(calls) - 1].ok

\* C33: a create-release run whose setUpstreamAndPush reported a failure
\* does not end in the state that reports the release branch as published.
C33_PushFailureNotSwallowed ==
    (wf = "create-release" /\ pc = "idle" /\ calls # <<>>
       /\ calls[Len(calls)].op = "setUpstreamAndPush"
       /\ ~calls[Len(calls)].ok) =>
      outcome.state # "success"

\* C34: deleteLocalBranch returns and never throws; success is true exactly
\* when the branch was deleted, otherwise the branches are as before;
\* requireForce is set exactly for a non-force call that failed on a branch
\* that is not fully merged, and then a call with force can delete it; a
\* successful non-force call deleted a branch whose commits are kept in the
\* checked-out branch or in its upstream, a force call deletes any branch
\* but the checked-out one.
C34_DeleteLocalBranchResult ==
    (wf = "api" /\ Len(calls) = 1
       /\ calls[1].op \in {"deleteLocalBranch -d", "deleteLocalBranch -D"}) =>
      LET b == calls[1].arg
          force == calls[1].op = "deleteLocalBranch -D"
      IN  /\ pc = "idle"
          /\ outcome.state \in {"deleted", "failed", "require-force"}
          /\ calls[1].ok <=> outcome.state = "deleted"
          /\ calls[1].ok =>
               /\ b \in entry.localBranches
               /\ localBranches = entry.localBranches \ {b}
               /\ b # current
               /\ ~force =>
                    \/ entry.commits[b] \subseteq commits[current]
                    \/ /\ b \in remoteBranches
                       /\ entry.commits[b] \subseteq remoteCommits[b]
          /\ ~calls[1].ok =>
               /\ localBranches = entry.localBranches
               /\ commits = entry.commits
          /\ outcome.state = "require-force" <=>
               /\ ~calls[1].ok
               /\ ~force
               /\ b \in localBranches \ {current}
               /\ ~(commits[b] \subseteq commits[current])
               /\ ~(b \in remoteBranches
                      /\ commits[b] \subseteq remoteCommits[b])
          /\ outcome.state = "require-force" => CanDeleteLocal(b, TRUE)

C34_Witness ==
    /\ wf = "api"
    /\ Len(calls) = 1
    /\ calls[1] = [op |-> "deleteLocalBranch -d", arg |-> hotfix2,
                   ok |-> FALSE]
    /\ outcome.state = "require-force"
    /\ current = develop

\* C35: whichever command ran and however it ended, the changes to tracked
\* files that were in the working tree at entry are in the working tree
\* again or in an entry of the stash stack that this run pushed.
C35_ChangesNeverDiscarded ==
    (runs > 0 /\ entry.tree = "tracked") =>
      \/ /\ tree = "tracked"
         /\ stash = entry.stash
      \/ /\ tree # "tracked"
         /\ stash = <<[by |-> runs]>> \o entry.stash

C35_Witness ==
    /\ Ended({"finish-hotfix"}, "completed")
    /\ entry.tree = "tracked"
    /\ tree = "clean"
    /\ Head(stash).by = runs

\* C36: the entries that were on the stash stack when a command was invoked
\* stay there, at the bottom of the stack, whatever the working tree held
\* at entry: an applyStash of the run takes the entry the run pushed.
C36_OldStashEntriesUntouched ==
    runs > 0 =>
      /\ Len(stash) >= Len(entry.stash)
      /\ SubSeq(stash, Len(stash) - Len(entry.stash) + 1, Len(stash))
           = entry.stash

\* C37: when cherry-pick returns normally (no other branch, no commits,
\* declined, picked or pick failed) and no restore of the run failed, the
\* stash stack is as deep as it was at entry.
C37_StashDepthRestored ==
    (wf = "cherry-pick" /\ pc = "idle"
       /\ outcome.state \in {"no-branches", "no-commits", "cancelled",
                             "completed"}
       /\ \A i \in 1..Len(calls) : calls[i].op = "applyStash" => calls[i].ok) =>
      Len(stash) = Len(entry.stash)

C39_FinishNeverThrows ==
    wf \in FinishTypes =>
      /\ pc = "idle" =>
           outcome.state \in {"completed", "cancelled", "no-candidates",
                              "no-main", "conflict", "delete-failed",
                              "caught"}
      /\ \A i \in 1..Len(calls) :
           ~calls[i].ok =>
             /\ i = Len(calls)
             /\ pc = "idle"
             /\ outcome.state \in {"caught", "conflict", "delete-failed"}
             /\ calls[i].op \notin {"mergeBranch", "deleteLocalBranch -d"} =>
                  outcome.state = "caught"

C39_Witness ==
    /\ Ended(FinishTypes, "caught")
    /\ calls[Len(calls)].op = "deleteRemoteBranch"
    /\ ~calls[Len(calls)].ok
    /\ releaseBranch \notin localBranches

====
